---- MODULE Spec2Model ----
(***************************************************************************)
(* Safari ERP Financeiro (src/app.py): the chart-of-accounts hierarchy,    *)
(* the Lançamentos page, the DFC - Caixa view, the Auditoria DFC           *)
(* simulation and the promotion of the official configuration, over the    *)
(* four tables of safari.db.                                               *)
(*                                                                         *)
(* Representation.                                                         *)
(*  - An account code is the tuple of its dot-separated segments, so       *)
(*    "1.02.03.04" is <<"1","02","03","04">>; str.split(".") and the       *)
(*    f-string that joins four blocks with dots are the two directions of  *)
(*    this representation.  The empty tuple <<>> is no code: it stands for *)
(*    Python's None.                                                       *)
(*  - A date is a day number; ISO text comparison in SQL and Timestamp     *)
(*    comparison in pandas both agree with the order of day numbers.       *)
(*  - An amount is an integer number of currency units.                    *)
(*  - A table is the sequence of its rows in insertion order, so the       *)
(*    AUTOINCREMENT id of a row grows with its position.                   *)
(*  - "Saida" is the text "Saída" of the source.                           *)
(***************************************************************************)
EXTENDS Integers, Sequences, FiniteSets, TLC

VARIABLES
    plano_contas,    \* table plano_contas: rows [codigo, natureza]
    lancamentos,     \* table lancamentos: rows [data_pagamento, valor, status, plano_conta_id]
    saldos,          \* table saldos: rows [data_referencia, tipo, valor]
    configuracoes,   \* table configuracoes: chave -> valor, on the keys that are stored
    form,            \* the widgets of the Auditoria DFC form in this session
    tela,            \* what the last run of the script put on the page
    arvore,          \* the hierarchy and roll-up the last run built
    sessao           \* script runs in progress in two browser sessions

vars == <<plano_contas, lancamentos, saldos, configuracoes, form, tela, arvore, sessao>>

banco == <<plano_contas, lancamentos, saldos, configuracoes>>

(* No script run is between two of its database statements: the DFC run   *)
(* has read none of the five settings, the promotion has written none.     *)
(* lidas are the local variables the DFC run has assigned so far; antes is *)
(* the configuracoes table as the promotion found it.                      *)
SemSessao ==
    [dfc |-> [pos |-> 0, lidas |-> <<>>], salvar |-> [pos |-> 0, antes |-> <<>>]]

-----------------------------------------------------------------------------
(* Bounds of the model.                                                    *)

MaxContasHier == 4

MaxData == 2

MaxLanc == 2

MaxValor == 2

MaxSaldos == 2

-----------------------------------------------------------------------------
(* Sequences and sums.                                                     *)

Range(s) == {s[i] : i \in 1..Len(s)}

RECURSIVE SumSeq(_)
SumSeq(s) == IF s = <<>> THEN 0 ELSE Head(s) + SumSeq(Tail(s))

Valores(s) == [i \in 1..Len(s) |-> s[i].valor]

Abs(x) == IF x < 0 THEN -x ELSE x

-----------------------------------------------------------------------------
(* Account codes.                                                          *)

(* The segments that occur in the codes below, in Python's string order    *)
(* ("0" < "00" < "01" < ... < "1" < "10" < "2" < "x").  The dot sorts      *)
(* below every character of a segment, so comparing two code strings is    *)
(* comparing their segment tuples lexicographically.                       *)
SegmentosOrdenados == <<"00", "01", "02", "03", "04", "05", "1", "10", "2", "x">>

Ordem(seg) == CHOOSE i \in 1..Len(SegmentosOrdenados) : SegmentosOrdenados[i] = seg

RECURSIVE CodLeq(_, _)
CodLeq(x, y) ==
    IF x = <<>> THEN TRUE
    ELSE IF y = <<>> THEN FALSE
    ELSE IF Head(x) = Head(y) THEN CodLeq(Tail(x), Tail(y))
    ELSE Ordem(Head(x)) < Ordem(Head(y))

(* sorted(list(set(...))) over code strings *)
RECURSIVE Sorted(_)
Sorted(S) ==
    IF S = {} THEN <<>>
    ELSE LET m == CHOOSE x \in S : \A y \in S : CodLeq(x, y)
         IN  <<m>> \o Sorted(S \ {m})

(* The segments whose first character is "1". *)
SegmentosCom1 == {"1", "10"}

NoPai == <<>>

codigo_blocos(cod) ==
    LET p == IF Len(cod) < 4 THEN cod \o [i \in 1..(4 - Len(cod)) |-> "00"] ELSE cod
    IN  SubSeq(p, 1, 4)

codigo_pais_semguarda(cod) ==
    LET p == codigo_blocos(cod)
    IN  << <<p[1], p[2], p[3], "00">>, <<p[1], p[2], "00", "00">>,
           <<p[1], "00", "00", "00">> >>

codigo_pais_invertido(cod) ==
    LET p == codigo_blocos(cod)
    IN  (IF p[2] # "00" THEN << <<p[1], "00", "00", "00">> >> ELSE <<>>)
        \o (IF p[3] # "00" THEN << <<p[1], p[2], "00", "00">> >> ELSE <<>>)
        \o (IF p[4] # "00" THEN << <<p[1], p[2], p[3], "00">> >> ELSE <<>>)

codigo_pais(cod) ==
    LET p == codigo_blocos(cod)
    IN  (IF p[4] # "00" THEN << <<p[1], p[2], p[3], "00">> >> ELSE <<>>)
        \o (IF p[3] # "00" THEN << <<p[1], p[2], "00", "00">> >> ELSE <<>>)
        \o (IF p[2] # "00" THEN << <<p[1], "00", "00", "00">> >> ELSE <<>>)

eh_sintetico(cod) == codigo_blocos(cod)[4] = "00"

(* transformar_plano: natureza from str(codigo).startswith("1") *)
NaturezaDoCodigo(cod) == IF Head(cod) \in SegmentosCom1 THEN "Entrada" ELSE "Saida"

LinhaPlano(cod) == [codigo |-> cod, natureza |-> NaturezaDoCodigo(cod)]

-----------------------------------------------------------------------------
(* Hierarchy of the chart of accounts (DFC - Caixa, HIERARQUIA + ROLL-UP). *)

(* plano_desc.keys() *)
ChavesPlano(plano) == {plano[i].codigo : i \in 1..Len(plano)}

(* plano_nat: a later row of the same code overwrites an earlier one *)
plano_nat(plano) ==
    [c \in ChavesPlano(plano) |->
        LET idx == {i \in 1..Len(plano) : plano[i].codigo = c}
            ult == CHOOSE i \in idx : \A j \in idx : j <= i
        IN  plano[ult].natureza]

(* the loop that looks for pai_existente *)
PaiExistente(cod, chaves) ==
    LET pais == codigo_pais(cod)
        idx  == {i \in 1..Len(pais) : pais[i] \in chaves}
    IN  IF idx = {} THEN NoPai
        ELSE pais[CHOOSE i \in idx : \A j \in idx : i <= j]

filhos(plano) ==
    LET chaves == ChavesPlano(plano)
    IN  [k \in chaves |-> Sorted({c \in chaves : PaiExistente(c, chaves) = k})]

tem_pai(cod, chaves) == \E i \in 1..Len(codigo_pais(cod)) : codigo_pais(cod)[i] \in chaves

roots(plano, natureza) ==
    LET chaves == ChavesPlano(plano)
        nat    == plano_nat(plano)
    IN  Sorted({c \in chaves : ~tem_pai(c, chaves) /\ nat[c] = natureza})

SemArvore ==
    [feita |-> FALSE, filhos |-> <<>>, roots_entrada |-> <<>>, roots_saida |-> <<>>,
     rolada |-> FALSE]

Arvore(plano) ==
    [feita |-> TRUE, filhos |-> filhos(plano),
     roots_entrada |-> roots(plano, "Entrada"), roots_saida |-> roots(plano, "Saida"),
     rolada |-> FALSE]

-----------------------------------------------------------------------------
(* CONFIGURACOES: the key/value table and the five official settings.      *)

ModeloPadrao == "Saldo + Entradas - Saidas"

(* the options of the selectbox "Fórmula do Saldo Final" *)
Modelos ==
    << "Saldo + Entradas - Saidas", "Saldo + Entradas + Saidas",
       "Saldo + (Entradas - Saidas)", "Saldo + Somente Entradas",
       "Saldo + Somente Saidas" >>

(* The texts in lower case. *)
StrBoolMinusculo(b) == IF b THEN "true" ELSE "false"

(* str(True) = "True", str(False) = "False" *)
StrBool(b) == IF b THEN "True" ELSE "False"

set_config(cfg, chave, valor) ==
    [k \in (DOMAIN cfg) \cup {chave} |-> IF k = chave THEN valor ELSE cfg[k]]

get_config(cfg, chave, default) ==
    IF chave \in DOMAIN cfg THEN cfg[chave] ELSE default

get_config_bool(cfg, chave, default) ==
    get_config(cfg, chave, StrBool(default)) = "True"

(* "ler configs oficiais da auditoria" in DFC - Caixa; the same reads give *)
(* the widgets of Auditoria DFC their initial values.                      *)
ConfigOficial(cfg) ==
    [modelo |-> get_config(cfg, "modelo_dfc_oficial", ModeloPadrao),
     considerar_somente_conciliados |->
         get_config_bool(cfg, "considerar_somente_conciliados", TRUE),
     usar_saldo_lancado |-> get_config_bool(cfg, "usar_saldo_lancado", TRUE),
     usar_saldo_calculado |-> get_config_bool(cfg, "usar_saldo_calculado", FALSE),
     forcar_saida_negativa |-> get_config_bool(cfg, "forcar_saida_negativa", TRUE)]

FormPadrao == ConfigOficial(<<>>)

(* every value the widgets of the form can hold *)
Forms ==
    [modelo : Range(Modelos),
     considerar_somente_conciliados : BOOLEAN,
     usar_saldo_lancado : BOOLEAN,
     usar_saldo_calculado : BOOLEAN,
     forcar_saida_negativa : BOOLEAN]

-----------------------------------------------------------------------------
(* The steps shared by DFC - Caixa and by Executar Simulação.              *)

(* lancamentos l JOIN plano_contas p ON l.plano_conta_id = p.codigo *)
JoinLinha(l, plano) ==
    LET ps == SelectSeq(plano, LAMBDA p : p.codigo = l.plano_conta_id)
    IN  [i \in 1..Len(ps) |->
            [data_pagamento |-> l.data_pagamento, valor |-> l.valor,
             status |-> l.status, codigo |-> ps[i].codigo,
             natureza |-> ps[i].natureza]]

(* LEFT JOIN: an entry without an account kept, with no natureza. *)
RECURSIVE df_left_join(_, _)
df_left_join(lancs, plano) ==
    IF lancs = <<>> THEN <<>>
    ELSE (IF JoinLinha(Head(lancs), plano) # <<>> THEN JoinLinha(Head(lancs), plano)
          ELSE << [data_pagamento |-> Head(lancs).data_pagamento,
                   valor |-> Head(lancs).valor, status |-> Head(lancs).status,
                   codigo |-> NoPai, natureza |-> "None"] >>)
         \o df_left_join(Tail(lancs), plano)

RECURSIVE df_join(_, _)
df_join(lancs, plano) ==
    IF lancs = <<>> THEN <<>>
    ELSE JoinLinha(Head(lancs), plano) \o df_join(Tail(lancs), plano)

Conciliado(r) ==
    \/ (r.natureza = "Entrada" /\ r.status = "Recebido")
    \/ (r.natureza = "Saida" /\ r.status = "Pago")

SoStatusLiquidado(df, somente) ==
    IF somente THEN SelectSeq(df, LAMBDA r : r.status \in {"Recebido", "Pago"}) ELSE df

(* if considerar_somente_conciliados: keep Entrada/Recebido and Saída/Pago *)
filtro_conciliados(df, somente) ==
    IF somente THEN SelectSeq(df, Conciliado) ELSE df

(* The period without its first day. *)
df_periodo_sem_inicio(df, ini, fim) ==
    SelectSeq(df, LAMBDA r : r.data_pagamento > ini /\ r.data_pagamento <= fim)

(* data_pagamento >= data_inicio and data_pagamento <= data_fim *)
df_periodo(df, ini, fim) ==
    SelectSeq(df, LAMBDA r : r.data_pagamento >= ini /\ r.data_pagamento <= fim)

DaNatureza(df, natureza) == SelectSeq(df, LAMBDA r : r.natureza = natureza)

SomaValor(df) == SumSeq(Valores(df))

(* valor_ajustado: valor of an Entrada row, -valor of any other row *)
SomaAjustada(df) ==
    SumSeq([i \in 1..Len(df) |->
               IF df[i].natureza = "Entrada" THEN df[i].valor ELSE -df[i].valor])

(* The history with the rows paid on the first day counted in. *)
saldo_inicial_calc_inclusive(df, ini) ==
    SomaAjustada(SelectSeq(df, LAMBDA r : r.data_pagamento <= ini))

(* df_antes / df_hist_sim: the rows paid before the first day *)
saldo_inicial_calc(df, ini) ==
    SomaAjustada(SelectSeq(df, LAMBDA r : r.data_pagamento < ini))

(* The raw sum negated, the toggle ignored. *)
total_saidas_sem_abs(raw, forcar) == -raw

(* -abs(raw) if forcar_saida_negativa else -raw *)
total_saidas(raw, forcar) == IF forcar THEN -Abs(raw) ELSE -raw

SemSaldo == [tem |-> FALSE, valor |-> 0, data |-> 0]

(* the rows of saldos of one tipo dated at or before d *)
SaldosAte(sald, tipo, d) ==
    {i \in 1..Len(sald) : sald[i].tipo = tipo /\ sald[i].data_referencia <= d}

LinhaSaldo(sald, i) ==
    [tem |-> TRUE, valor |-> sald[i].valor, data |-> sald[i].data_referencia]

(* ORDER BY data_referencia DESC, id DESC LIMIT 1 *)
ultimo_saldo(sald, tipo, d) ==
    LET idx == SaldosAte(sald, tipo, d)
    IN  IF idx = {} THEN SemSaldo
        ELSE LinhaSaldo(sald,
                 CHOOSE i \in idx : \A j \in idx :
                     \/ sald[j].data_referencia < sald[i].data_referencia
                     \/ (sald[j].data_referencia = sald[i].data_referencia /\ j <= i))

(* ORDER BY data_referencia DESC LIMIT 1: SQL leaves the order of rows of  *)
(* equal data_referencia open, so any of them can be the first row.        *)
primeiros_saldos_sim(sald, d) ==
    LET idx == SaldosAte(sald, "Inicial", d)
    IN  IF idx = {} THEN {SemSaldo}
        ELSE {LinhaSaldo(sald, i) : i \in
                 {i \in idx : \A j \in idx :
                      sald[j].data_referencia <= sald[i].data_referencia}}

(* The rows of "Entradas - Saídas" and "Entradas + Saídas" exchanged. *)
saldo_final_trocado(modelo, saldo_inicial, entradas, saidas) ==
    IF modelo = "Saldo + Entradas + Saidas" THEN saldo_inicial + entradas - saidas
    ELSE IF modelo = "Saldo + Entradas - Saidas" THEN saldo_inicial + entradas + saidas
    ELSE IF modelo = "Saldo + (Entradas - Saidas)" THEN saldo_inicial + (entradas - saidas)
    ELSE IF modelo = "Saldo + Somente Entradas" THEN saldo_inicial + entradas
    ELSE IF modelo = "Saldo + Somente Saidas" THEN saldo_inicial + saidas
    ELSE saldo_inicial + entradas + saidas

(* "Aplicar modelo oficial" in DFC - Caixa *)
saldo_final_calc(modelo, saldo_inicial, entradas, saidas) ==
    IF modelo = "Saldo + Entradas + Saidas" THEN saldo_inicial + entradas + saidas
    ELSE IF modelo = "Saldo + Entradas - Saidas" THEN saldo_inicial + entradas - saidas
    ELSE IF modelo = "Saldo + (Entradas - Saidas)" THEN saldo_inicial + (entradas - saidas)
    ELSE IF modelo = "Saldo + Somente Entradas" THEN saldo_inicial + entradas
    ELSE IF modelo = "Saldo + Somente Saidas" THEN saldo_inicial + saidas
    ELSE saldo_inicial + entradas + saidas

(* "Aplicar fórmula" in Executar Simulação *)
saldo_final_sim(modelo, saldo_inicial, entradas, saidas) ==
    IF modelo = "Saldo + Entradas - Saidas" THEN saldo_inicial + entradas - saidas
    ELSE IF modelo = "Saldo + Entradas + Saidas" THEN saldo_inicial + entradas + saidas
    ELSE IF modelo = "Saldo + (Entradas - Saidas)" THEN saldo_inicial + (entradas - saidas)
    ELSE IF modelo = "Saldo + Somente Entradas" THEN saldo_inicial + entradas
    ELSE IF modelo = "Saldo + Somente Saidas" THEN saldo_inicial + saidas
    ELSE saldo_inicial + entradas - saidas

-----------------------------------------------------------------------------
(* Roll-up of the period over the hierarchy (DFC - Caixa).                 *)

(* df_periodo.groupby(["codigo", "natureza"])["valor"].sum() *)
soma_por_codigo(dfp) ==
    [k \in {<<dfp[i].codigo, dfp[i].natureza>> : i \in 1..Len(dfp)} |->
        SomaValor(SelectSeq(dfp, LAMBDA r : r.codigo = k[1] /\ r.natureza = k[2]))]

(* dict.get(key, default) *)
Get(d, key, default) == IF key \in DOMAIN d THEN d[key] ELSE default

Put(d, key, v) == [k \in (DOMAIN d) \cup {key} |-> IF k = key THEN v ELSE d[k]]

(* ctx holds what total_no closes over: filhos, plano_nat, soma_por_codigo. *)
(* total_no returns the total and the cache_total it leaves.               *)
RECURSIVE total_no(_, _, _, _), soma_filhos(_, _, _, _, _)

soma_filhos_todos(chs, natureza, base, cache, ctx) ==
    IF chs = <<>> THEN [valor |-> base, cache |-> cache]
    ELSE LET t == total_no(Head(chs), natureza, cache, ctx)
         IN  soma_filhos(Tail(chs), natureza, base + t.valor, t.cache, ctx)

(* for ch in filhos.get(cod, []): skip a child of another natureza *)
soma_filhos(chs, natureza, base, cache, ctx) ==
    IF chs = <<>> THEN [valor |-> base, cache |-> cache]
    ELSE IF Get(ctx.plano_nat, Head(chs), natureza) # natureza
         THEN soma_filhos(Tail(chs), natureza, base, cache, ctx)
         ELSE LET t == total_no(Head(chs), natureza, cache, ctx)
              IN  soma_filhos(Tail(chs), natureza, base + t.valor, t.cache, ctx)

total_no(cod, natureza, cache, ctx) ==
    LET key == <<cod, natureza>>
    IN  IF key \in DOMAIN cache THEN [valor |-> cache[key], cache |-> cache]
        ELSE LET r == soma_filhos(Get(ctx.filhos, cod, <<>>), natureza,
                                  Get(ctx.soma_por_codigo, key, 0), cache, ctx)
             IN  [valor |-> r.valor, cache |-> Put(r.cache, key, r.valor)]

(* render_no: the line of a node, then the lines of its children of the    *)
(* same natureza.  st is [cache, linhas]: cache_total and the lines shown. *)
RECURSIVE render_no(_, _, _, _), render_filhos(_, _, _, _)

render_filhos(chs, natureza, st, ctx) ==
    IF chs = <<>> THEN st
    ELSE IF Get(ctx.plano_nat, Head(chs), "") # natureza
         THEN render_filhos(Tail(chs), natureza, st, ctx)
         ELSE render_filhos(Tail(chs), natureza,
                            render_no(Head(chs), natureza, st, ctx), ctx)

render_no(cod, natureza, st, ctx) ==
    LET t == total_no(cod, natureza, st.cache, ctx)
    IN  render_filhos(Get(ctx.filhos, cod, <<>>), natureza,
            [cache |-> t.cache,
             linhas |-> st.linhas \cup
                 {[codigo |-> cod, natureza |-> natureza, total |-> t.valor]}],
            ctx)

(* for r in roots_entrada: render_no(r, "Entrada") ... *)
RECURSIVE render_raizes(_, _, _, _)
render_raizes(rs, natureza, st, ctx) ==
    IF rs = <<>> THEN st
    ELSE render_raizes(Tail(rs), natureza, render_no(Head(rs), natureza, st, ctx), ctx)

Contexto(plano, dfp) ==
    [filhos |-> filhos(plano), plano_nat |-> plano_nat(plano),
     soma_por_codigo |-> soma_por_codigo(dfp)]

(* The cache the previous run left. *)
cache_herdado == IF arvore.rolada THEN arvore.cache_total ELSE <<>>

(* cache_total = {} *)
cache_inicial == <<>>

(* HIERARQUIA + ROLL-UP and DFC HIERÁRQUICO of one run *)
ArvoreDFC(plano, dfp) ==
    LET ctx == Contexto(plano, dfp)
        re  == roots(plano, "Entrada")
        rs  == roots(plano, "Saida")
        e   == render_raizes(re, "Entrada", [cache |-> cache_inicial, linhas |-> {}], ctx)
        f   == render_raizes(rs, "Saida", e, ctx)
    IN  [feita |-> TRUE, filhos |-> ctx.filhos, roots_entrada |-> re, roots_saida |-> rs,
         rolada |-> TRUE, cache_total |-> f.cache, linhas |-> f.linhas]

-----------------------------------------------------------------------------
(* menu == "DFC - Caixa"                                                   *)

Parada(view, estado, cfg, ini, fim, df) ==
    [view |-> view, estado |-> estado, cfg |-> cfg, ini |-> ini, fim |-> fim,
     df_mov |-> df]

(* usar_saldo_calculado: the history before the period, from df_mov *)
saldo_calculado_dfc(usar, df_mov, ini) ==
    IF usar THEN saldo_inicial_calc(df_mov, ini) ELSE 0

(* The recorded snapshot when there is one, the history otherwise. *)
saldo_inicial_escolhido(usar_lancado, lancado, usar_calculado, calc) ==
    IF usar_lancado /\ lancado.tem THEN lancado.valor
    ELSE IF usar_calculado THEN calc ELSE 0

(* "combinar saldos conforme configuração" *)
saldo_inicial_combinado(usar_lancado, lancado, usar_calculado, calc) ==
    (IF usar_lancado /\ lancado.tem THEN lancado.valor ELSE 0)
        + (IF usar_calculado THEN calc ELSE 0)

(* The closing balance alone. *)
geracao_caixa_sem_inicial(final, inicial) == final

(* geracao_caixa = saldo_final_calc - saldo_inicial *)
geracao_caixa(final, inicial) == final - inicial

ResumoDFC(cfg, ini, fim, df_mov, sald) ==
    LET dfp      == df_periodo(df_mov, ini, fim)
        lancado  == IF cfg.usar_saldo_lancado
                    THEN ultimo_saldo(sald, "Inicial", ini) ELSE SemSaldo
        calc     == saldo_calculado_dfc(cfg.usar_saldo_calculado, df_mov, ini)
        inicial  == saldo_inicial_combinado(cfg.usar_saldo_lancado, lancado,
                                            cfg.usar_saldo_calculado, calc)
        entradas == SomaValor(DaNatureza(dfp, "Entrada"))
        raw      == SomaValor(DaNatureza(dfp, "Saida"))
        saidas   == total_saidas(raw, cfg.forcar_saida_negativa)
        final    == saldo_final_calc(cfg.modelo, inicial, entradas, saidas)
    IN  [view |-> "DFC", estado |-> "ok", cfg |-> cfg, ini |-> ini, fim |-> fim,
         df_mov |-> df_mov,
         saldo_lancado |-> lancado, saldo_inicial_calc |-> calc,
         saldo_inicial |-> inicial, total_entradas |-> entradas,
         total_saidas_raw |-> raw, total_saidas |-> saidas,
         saldo_final |-> final,
         saldo_final_lancado |-> ultimo_saldo(sald, "Final", fim),
         geracao_caixa |-> geracao_caixa(final, inicial)]

(* The page with the history before the period taken from the rows as they *)
(* were joined, the reconciliation filter reaching only the period.        *)
ResultadoDFC_filtro_tardio(plano, lancs, sald, cfg, ini, fim) ==
    LET df0    == df_join(lancs, plano)
        df_mov == filtro_conciliados(df0, cfg.considerar_somente_conciliados)
    IN  IF df0 = <<>> THEN Parada("DFC", "sem_lancamento", cfg, ini, fim, df0)
        ELSE IF df_mov = <<>> THEN Parada("DFC", "sem_conciliado", cfg, ini, fim, df_mov)
        ELSE IF df_periodo(df_mov, ini, fim) = <<>>
             THEN Parada("DFC", "sem_periodo", cfg, ini, fim, df_mov)
        ELSE LET r       == ResumoDFC(cfg, ini, fim, df_mov, sald)
                 calc    == saldo_calculado_dfc(cfg.usar_saldo_calculado, df0, ini)
                 inicial == r.saldo_inicial - r.saldo_inicial_calc + calc
                 final   == saldo_final_calc(cfg.modelo, inicial, r.total_entradas,
                                             r.total_saidas)
             IN  [r EXCEPT !.saldo_inicial_calc = calc, !.saldo_inicial = inicial,
                           !.saldo_final = final, !.geracao_caixa = final - inicial]

(* The page up to the summary panel; each st.stop() ends the run there. *)
ResultadoDFC(plano, lancs, sald, cfg, ini, fim) ==
    LET df0    == df_join(lancs, plano)
        df_mov == filtro_conciliados(df0, cfg.considerar_somente_conciliados)
    IN  IF df0 = <<>> THEN Parada("DFC", "sem_lancamento", cfg, ini, fim, df0)
        ELSE IF df_mov = <<>> THEN Parada("DFC", "sem_conciliado", cfg, ini, fim, df_mov)
        ELSE IF df_periodo(df_mov, ini, fim) = <<>>
             THEN Parada("DFC", "sem_periodo", cfg, ini, fim, df_mov)
        ELSE ResumoDFC(cfg, ini, fim, df_mov, sald)

ArvoreDoResultado(plano, r) ==
    IF r.estado = "ok" THEN ArvoreDFC(plano, df_periodo(r.df_mov, r.ini, r.fim))
    ELSE SemArvore

(* A page that also records its closing balance as the snapshot of its     *)
(* first day.                                                              *)
DFC_registrando_saldo(ini, fim) ==
    LET r == ResultadoDFC(plano_contas, lancamentos, saldos,
                          ConfigOficial(configuracoes), ini, fim)
    IN  /\ tela' = r
        /\ arvore' = ArvoreDoResultado(plano_contas, r)
        /\ saldos' = IF r.estado = "ok"
                     THEN Append(saldos, [data_referencia |-> ini, tipo |-> "Inicial",
                                          valor |-> r.saldo_final])
                     ELSE saldos
        /\ UNCHANGED <<plano_contas, lancamentos, configuracoes, form, sessao>>

DFC(ini, fim) ==
    LET r == ResultadoDFC(plano_contas, lancamentos, saldos,
                          ConfigOficial(configuracoes), ini, fim)
    IN  /\ tela' = r
        /\ arvore' = ArvoreDoResultado(plano_contas, r)
        /\ UNCHANGED <<banco, form, sessao>>

-----------------------------------------------------------------------------
(* menu == "Auditoria DFC"                                                 *)

(* Executar Simulação with the widgets cfg; primeiro is the first row of   *)
(* the saldos query.                                                       *)
ResultadoSim(plano, lancs, cfg, ini, fim, primeiro) ==
    LET df0    == df_join(lancs, plano)
        df_mov == filtro_conciliados(df0, cfg.considerar_somente_conciliados)
        lancado  == IF cfg.usar_saldo_lancado THEN primeiro ELSE SemSaldo
        inicial  == (IF cfg.usar_saldo_lancado /\ lancado.tem THEN lancado.valor ELSE 0)
                    + (IF cfg.usar_saldo_calculado
                       THEN saldo_inicial_calc(df_mov, ini) ELSE 0)
        dfp      == df_periodo(df_mov, ini, fim)
        entradas == SomaValor(DaNatureza(dfp, "Entrada"))
        saidas   == total_saidas(SomaValor(DaNatureza(dfp, "Saida")),
                                 cfg.forcar_saida_negativa)
    IN  IF df0 = <<>> THEN Parada("SIM", "sem_lancamento", cfg, ini, fim, df0)
        ELSE IF df_mov = <<>> THEN Parada("SIM", "sem_conciliado", cfg, ini, fim, df_mov)
        ELSE [view |-> "SIM", estado |-> "ok", cfg |-> cfg, ini |-> ini, fim |-> fim,
              df_mov |-> df_mov,
              saldo_lancado |-> lancado, saldo_inicial |-> inicial,
              total_entradas |-> entradas, total_saidas |-> saidas,
              saldo_final |-> saldo_final_sim(cfg.modelo, inicial, entradas, saidas)]

(* the five set_config calls of "Salvar Configuração Oficial" *)
ConfigSalva(cfg, f) ==
    set_config(
      set_config(
        set_config(
          set_config(
            set_config(cfg, "modelo_dfc_oficial", f.modelo),
            "usar_saldo_lancado", StrBool(f.usar_saldo_lancado)),
          "usar_saldo_calculado", StrBool(f.usar_saldo_calculado)),
        "considerar_somente_conciliados", StrBool(f.considerar_somente_conciliados)),
      "forcar_saida_negativa", StrBool(f.forcar_saida_negativa))

(* The Auditoria DFC page is drawn up to its buttons only when the stored  *)
(* formula is one of the options: list.index(...) raises ValueError on any *)
(* other text, and the script ends there.                                  *)
AuditoriaAbre ==
    get_config(configuracoes, "modelo_dfc_oficial", ModeloPadrao) \in Range(Modelos)

(* The page run that ends in the ValueError. *)
AuditoriaErro ==
    /\ ~AuditoriaAbre
    /\ tela' = [view |-> "erro_auditoria"]
    /\ arvore' = SemArvore
    /\ UNCHANGED <<banco, form, sessao>>

(* A simulation that also stores the settings it ran with. *)
ExecutarSimulacaoGravando(ini, fim) ==
    /\ AuditoriaAbre
    /\ \E primeiro \in primeiros_saldos_sim(saldos, ini) :
          tela' = ResultadoSim(plano_contas, lancamentos, form, ini, fim, primeiro)
    /\ arvore' = SemArvore
    /\ configuracoes' = ConfigSalva(configuracoes, form)
    /\ UNCHANGED <<plano_contas, lancamentos, saldos, form, sessao>>

ExecutarSimulacao(ini, fim) ==
    /\ AuditoriaAbre
    /\ \E primeiro \in primeiros_saldos_sim(saldos, ini) :
          tela' = ResultadoSim(plano_contas, lancamentos, form, ini, fim, primeiro)
    /\ arvore' = SemArvore
    /\ UNCHANGED <<banco, form, sessao>>

SalvarConfiguracaoOficial ==
    /\ AuditoriaAbre
    /\ configuracoes' = ConfigSalva(configuracoes, form)
    /\ tela' = [view |-> "config_salva"]
    /\ arvore' = SemArvore
    /\ UNCHANGED <<plano_contas, lancamentos, saldos, form, sessao>>

-----------------------------------------------------------------------------
(* The hierarchy builder applied to charts drawn from a catalogue of codes *)
(* with gaps, short, over-long and non-numeric codes.                      *)

CodigosHier ==
    { <<"1", "00", "00", "00">>, <<"1", "02", "00", "00">>, <<"1", "02", "03", "00">>,
      <<"1", "02", "03", "04">>, <<"1", "02", "00", "04">>, <<"1", "00", "00", "04">>,
      <<"1", "02">>, <<"1">>, <<"1", "02", "03", "04", "05">>,
      <<"x", "00", "00", "00">>, <<"x", "01", "00", "00">>,
      <<"2", "00", "00", "00">>, <<"2", "01", "00", "01">>, <<"10", "01", "00", "00">> }

(* One row per code, in sorted order: the chart an imported sheet gives. *)
PlanoDe(S) == LET s == Sorted(S) IN [i \in 1..Len(s) |-> LinhaPlano(s[i])]

SemTela == [view |-> "nenhuma"]

InitHier ==
    /\ \E S \in SUBSET CodigosHier :
          /\ Cardinality(S) <= MaxContasHier
          /\ plano_contas = PlanoDe(S)
    /\ lancamentos = <<>>
    /\ saldos = <<>>
    /\ configuracoes = <<>>
    /\ form = FormPadrao
    /\ tela = SemTela
    /\ arvore = SemArvore
    /\ sessao = SemSessao

MontarHierarquia ==
    /\ ~arvore.feita
    /\ arvore' = Arvore(plano_contas)
    /\ UNCHANGED <<banco, form, tela, sessao>>

NextHier == MontarHierarquia

SpecHier == InitHier /\ [][NextHier]_vars

-----------------------------------------------------------------------------
(* The two views and the promotion over the stores the entry screens can   *)
(* leave in safari.db.                                                     *)

Datas == 1..MaxData

ContaEntrada == <<"1", "01", "00", "01">>

ContaSaida == <<"2", "01", "00", "01">>

(* "Recebido" and "Pago" are the settled statuses; "Atrasado" stands for   *)
(* the statuses that are not settled for either natureza.                  *)
StatusVistas == {"Recebido", "Pago", "Atrasado"}

LancamentosPossiveis ==
    [data_pagamento : Datas, valor : 1..MaxValor, status : StatusVistas,
     plano_conta_id : {ContaEntrada, ContaSaida}]

(* an arbitrary fixed order of the rows, to draw each bag of rows once *)
OrdemLanc(l) ==
    (((l.data_pagamento * (MaxValor + 1) + l.valor) * 3
        + (CASE l.status = "Recebido" -> 0 [] l.status = "Pago" -> 1 [] OTHER -> 2)) * 2)
        + (IF l.plano_conta_id = ContaEntrada THEN 0 ELSE 1)

TabelasLancamentos ==
    {t \in UNION {[1..n -> LancamentosPossiveis] : n \in 0..MaxLanc} :
        \A i \in 1..(Len(t) - 1) : OrdemLanc(t[i]) <= OrdemLanc(t[i + 1])}

Periodos == {p \in Datas \X Datas : p[1] <= p[2]}

(* The official configuration after the form f was promoted. *)
Promovida(f) == ConfigSalva(<<>>, f)

(* The settings cfg with the reconciliation filter off. *)
SemFiltro(cfg) == [cfg EXCEPT !.considerar_somente_conciliados = FALSE]

(* One Inicial snapshot dated on the first day. *)
SaldosVistas == << [data_referencia |-> 1, tipo |-> "Inicial", valor |-> 5] >>

(* Spec: the official view and the simulation over the same store, the     *)
(* form holding the settings that were promoted.                           *)
Init ==
    /\ plano_contas = PlanoDe({ContaEntrada, ContaSaida})
    /\ lancamentos \in TabelasLancamentos
    /\ saldos = SaldosVistas
    /\ form \in Forms
    /\ configuracoes = Promovida(form)
    /\ tela = SemTela
    /\ arvore = SemArvore
    /\ sessao = SemSessao

Next ==
    \/ \E p \in Periodos : DFC(p[1], p[2])
    \/ \E p \in Periodos : ExecutarSimulacao(p[1], p[2])

Spec == Init /\ [][Next]_vars

(* SpecConfig: a fresh configuracoes table, any values in the form, and    *)
(* the promotion next to the two views.                                    *)
LancamentosConfig ==
    << [data_pagamento |-> 1, valor |-> 1, status |-> "Recebido",
        plano_conta_id |-> ContaEntrada],
       [data_pagamento |-> MaxData, valor |-> 1, status |-> "Pago",
        plano_conta_id |-> ContaSaida] >>

InitConfig ==
    /\ plano_contas = PlanoDe({ContaEntrada, ContaSaida})
    /\ lancamentos = LancamentosConfig
    /\ saldos = SaldosVistas
    /\ form \in Forms
    /\ configuracoes = <<>>
    /\ tela = SemTela
    /\ arvore = SemArvore
    /\ sessao = SemSessao

NextConfig ==
    \/ \E p \in Periodos : DFC(p[1], p[2])
    \/ \E p \in Periodos : ExecutarSimulacao(p[1], p[2])
    \/ SalvarConfiguracaoOficial

SpecConfig == InitConfig /\ [][NextConfig]_vars

-----------------------------------------------------------------------------
(* SpecRollup: DFC - Caixa over a three-level chain of accounts, any       *)
(* natureza in each row of plano_contas, entries on any of the three.      *)

CodigosRollup ==
    { <<"1", "00", "00", "00">>, <<"1", "01", "00", "00">>, <<"1", "01", "00", "01">> }

Naturezas == {"Entrada", "Saida"}

(* One row per code of S, in sorted order, nat giving the natureza. *)
PlanoCom(S, nat) ==
    LET s == Sorted(S) IN [i \in 1..Len(s) |-> [codigo |-> s[i], natureza |-> nat[s[i]]]]

PlanosRollup ==
    UNION { {PlanoCom(S, nat) : nat \in [S -> Naturezas]} :
                S \in (SUBSET CodigosRollup) \ {{}} }

LancamentosRollup ==
    [data_pagamento : Datas, valor : 1..MaxValor, status : {"Recebido", "Pago"},
     plano_conta_id : CodigosRollup]

OrdemLancRollup(l) ==
    (((l.data_pagamento * (MaxValor + 1) + l.valor) * 2
        + (IF l.status = "Recebido" THEN 0 ELSE 1)) * 4) + Len(SelectSeq(l.plano_conta_id,
                                                             LAMBDA seg : seg = "00"))

TabelasRollup ==
    {t \in UNION {[1..n -> LancamentosRollup] : n \in 0..MaxLanc} :
        \A i \in 1..(Len(t) - 1) : OrdemLancRollup(t[i]) <= OrdemLancRollup(t[i + 1])}

InitRollup ==
    /\ plano_contas \in PlanosRollup
    /\ lancamentos \in TabelasRollup
    /\ saldos = SaldosVistas
    /\ form = FormPadrao
    /\ configuracoes \in {Promovida(FormPadrao), Promovida(SemFiltro(FormPadrao))}
    /\ tela = SemTela
    /\ arvore = SemArvore
    /\ sessao = SemSessao

NextRollup == \E p \in Periodos : DFC(p[1], p[2])

SpecRollup == InitRollup /\ [][NextRollup]_vars

-----------------------------------------------------------------------------
(* SpecSaldos: the two views over any rows of the table saldos, rows of    *)
(* the same data_referencia and tipo included (the table has no UNIQUE     *)
(* constraint), with entries on every day so that every period has some.   *)

ValoresSaldo == {5, 7}

LinhasSaldos == [data_referencia : Datas, tipo : {"Inicial", "Final"}, valor : ValoresSaldo]

TabelasSaldos == UNION {[1..n -> LinhasSaldos] : n \in 0..MaxSaldos}

InitSaldos ==
    /\ plano_contas = PlanoDe({ContaEntrada, ContaSaida})
    /\ lancamentos = LancamentosConfig
    /\ saldos \in TabelasSaldos
    /\ form \in {FormPadrao, [FormPadrao EXCEPT !.usar_saldo_lancado = FALSE]}
    /\ configuracoes = Promovida(form)
    /\ tela = SemTela
    /\ arvore = SemArvore
    /\ sessao = SemSessao

NextSaldos ==
    \/ \E p \in Periodos : DFC(p[1], p[2])
    \/ \E p \in Periodos : ExecutarSimulacao(p[1], p[2])

SpecSaldos == InitSaldos /\ [][NextSaldos]_vars

-----------------------------------------------------------------------------
(* SpecFormula: the two views over settled entries of either sign (the     *)
(* Excel import stores the amounts of the sheet as they are) and over any  *)
(* text in the key modelo_dfc_oficial of configuracoes.                    *)

ModeloDesconhecido == "Saldo - Entradas"

ValoresComSinal == ((0 - MaxValor)..MaxValor) \ {0}

LancamentosFormula ==
    {[data_pagamento |-> d, valor |-> v, status |-> "Recebido",
      plano_conta_id |-> ContaEntrada] : d \in Datas, v \in ValoresComSinal}
    \cup
    {[data_pagamento |-> d, valor |-> v, status |-> "Pago",
      plano_conta_id |-> ContaSaida] : d \in Datas, v \in ValoresComSinal}

OrdemLancFormula(l) ==
    ((l.data_pagamento * (2 * MaxValor + 1) + (l.valor + MaxValor)) * 2)
        + (IF l.plano_conta_id = ContaEntrada THEN 0 ELSE 1)

TabelasFormula ==
    {t \in UNION {[1..n -> LancamentosFormula] : n \in 0..MaxLanc} :
        \A i \in 1..(Len(t) - 1) : OrdemLancFormula(t[i]) <= OrdemLancFormula(t[i + 1])}

ConfigsFormula ==
    {ConfigSalva(<<>>, f) :
        f \in [modelo : Range(Modelos) \cup {ModeloDesconhecido},
               considerar_somente_conciliados : {TRUE},
               usar_saldo_lancado : BOOLEAN,
               usar_saldo_calculado : BOOLEAN,
               forcar_saida_negativa : BOOLEAN]}

InitFormula ==
    /\ plano_contas = PlanoDe({ContaEntrada, ContaSaida})
    /\ lancamentos \in TabelasFormula
    /\ saldos = SaldosVistas
    /\ configuracoes \in ConfigsFormula
    /\ form = IF AuditoriaAbre THEN ConfigOficial(configuracoes) ELSE FormPadrao
    /\ tela = SemTela
    /\ arvore = SemArvore
    /\ sessao = SemSessao

NextFormula ==
    \/ \E p \in Periodos : DFC(p[1], p[2])
    \/ \E p \in Periodos : ExecutarSimulacao(p[1], p[2])
    \/ AuditoriaErro

SpecFormula == InitFormula /\ [][NextFormula]_vars

-----------------------------------------------------------------------------
(* SpecOrfaos: the two views when lancamentos holds entries booked on a    *)
(* code that plano_contas no longer has (Salvar no Banco replaces the      *)
(* chart and leaves the entries).                                          *)

ContaAusente == <<"3", "01", "00", "01">>

LancamentosOrfaos ==
    [data_pagamento : Datas, valor : 1..MaxValor, status : {"Recebido", "Pago"},
     plano_conta_id : {ContaEntrada, ContaSaida, ContaAusente}]

OrdemLancOrfaos(l) ==
    (((l.data_pagamento * (MaxValor + 1) + l.valor) * 2
        + (IF l.status = "Recebido" THEN 0 ELSE 1)) * 3)
        + (CASE l.plano_conta_id = ContaEntrada -> 0
             [] l.plano_conta_id = ContaSaida -> 1
             [] OTHER -> 2)

TabelasOrfaos ==
    {t \in UNION {[1..n -> LancamentosOrfaos] : n \in 0..MaxLanc} :
        \A i \in 1..(Len(t) - 1) : OrdemLancOrfaos(t[i]) <= OrdemLancOrfaos(t[i + 1])}

FormsOrfaos ==
    {[FormPadrao EXCEPT !.considerar_somente_conciliados = rc,
                        !.usar_saldo_calculado = calc] : rc \in BOOLEAN, calc \in BOOLEAN}

InitOrfaos ==
    /\ plano_contas = PlanoDe({ContaEntrada, ContaSaida})
    /\ lancamentos \in TabelasOrfaos
    /\ saldos = SaldosVistas
    /\ form \in FormsOrfaos
    /\ configuracoes = Promovida(form)
    /\ tela = SemTela
    /\ arvore = SemArvore
    /\ sessao = SemSessao

NextOrfaos ==
    \/ \E p \in Periodos : DFC(p[1], p[2])
    \/ \E p \in Periodos : ExecutarSimulacao(p[1], p[2])

SpecOrfaos == InitOrfaos /\ [][NextOrfaos]_vars

-----------------------------------------------------------------------------
(* SpecTextos: DFC - Caixa and the promotion over a configuracoes table    *)
(* that holds, for any of the four toggles, no row or a row with one of    *)
(* several texts (valor is a TEXT column).                                 *)

ChavesBool ==
    {"considerar_somente_conciliados", "usar_saldo_lancado", "usar_saldo_calculado",
     "forcar_saida_negativa"}

TextosBool == {"True", "False", "true", "1"}

ConfigsTexto == UNION {[K -> TextosBool] : K \in SUBSET ChavesBool}

FormsTexto ==
    {FormPadrao,
     [FormPadrao EXCEPT !.considerar_somente_conciliados = FALSE,
                        !.usar_saldo_lancado = FALSE,
                        !.usar_saldo_calculado = TRUE,
                        !.forcar_saida_negativa = FALSE]}

InitTextos ==
    /\ plano_contas = PlanoDe({ContaEntrada, ContaSaida})
    /\ lancamentos = LancamentosConfig
    /\ saldos = SaldosVistas
    /\ configuracoes \in ConfigsTexto
    /\ form \in FormsTexto
    /\ tela = SemTela
    /\ arvore = SemArvore
    /\ sessao = SemSessao

NextTextos ==
    \/ \E p \in Periodos : DFC(p[1], p[2])
    \/ SalvarConfiguracaoOficial

SpecTextos == InitTextos /\ [][NextTextos]_vars

-----------------------------------------------------------------------------
(* SpecConcorrente: a DFC - Caixa run in one browser session while another *)
(* session presses Salvar Configuração Oficial.  Each get_config and each  *)
(* set_config is a statement of its own on the database (set_config opens  *)
(* and commits its own transaction), so the two runs interleave statement  *)
(* by statement.                                                           *)

(* The five reads of DFC - Caixa, in the order of the script: the local    *)
(* variable, the key and the default.                                      *)
LeiturasOficiais ==
    << [campo |-> "modelo", chave |-> "modelo_dfc_oficial"],
       [campo |-> "considerar_somente_conciliados",
        chave |-> "considerar_somente_conciliados"],
       [campo |-> "usar_saldo_lancado", chave |-> "usar_saldo_lancado"],
       [campo |-> "usar_saldo_calculado", chave |-> "usar_saldo_calculado"],
       [campo |-> "forcar_saida_negativa", chave |-> "forcar_saida_negativa"] >>

LerChave(cfg, chave) ==
    CASE chave = "modelo_dfc_oficial" -> get_config(cfg, chave, ModeloPadrao)
      [] chave = "considerar_somente_conciliados" -> get_config_bool(cfg, chave, TRUE)
      [] chave = "usar_saldo_lancado" -> get_config_bool(cfg, chave, TRUE)
      [] chave = "usar_saldo_calculado" -> get_config_bool(cfg, chave, FALSE)
      [] chave = "forcar_saida_negativa" -> get_config_bool(cfg, chave, TRUE)

(* The five writes of Salvar Configuração Oficial, in the order of the     *)
(* script.                                                                 *)
GravacoesOficiais(f) ==
    << [chave |-> "modelo_dfc_oficial", valor |-> f.modelo],
       [chave |-> "usar_saldo_lancado", valor |-> StrBool(f.usar_saldo_lancado)],
       [chave |-> "usar_saldo_calculado", valor |-> StrBool(f.usar_saldo_calculado)],
       [chave |-> "considerar_somente_conciliados",
        valor |-> StrBool(f.considerar_somente_conciliados)],
       [chave |-> "forcar_saida_negativa", valor |-> StrBool(f.forcar_saida_negativa)] >>

(* One get_config / get_config_bool of the DFC - Caixa run. *)
LerConfigOficial ==
    /\ sessao.dfc.pos < Len(LeiturasOficiais)
    /\ LET l == LeiturasOficiais[sessao.dfc.pos + 1]
       IN  sessao' = [sessao EXCEPT
                         !.dfc.pos = @ + 1,
                         !.dfc.lidas = Put(@, l.campo, LerChave(configuracoes, l.chave))]
    /\ UNCHANGED <<banco, form, tela, arvore>>

(* The rest of the DFC - Caixa run, over the five local variables. *)
DFC_ComLidas(ini, fim) ==
    /\ sessao.dfc.pos = Len(LeiturasOficiais)
    /\ LET r == ResultadoDFC(plano_contas, lancamentos, saldos, sessao.dfc.lidas, ini, fim)
       IN  /\ tela' = r
           /\ arvore' = ArvoreDoResultado(plano_contas, r)
    /\ sessao' = [sessao EXCEPT !.dfc = SemSessao.dfc]
    /\ UNCHANGED <<banco, form>>

(* One set_config of Salvar Configuração Oficial; the button is on the     *)
(* page only when the page opened.                                         *)
SalvarConfiguracaoPasso ==
    /\ sessao.salvar.pos < Len(GravacoesOficiais(form))
    /\ sessao.salvar.pos = 0 => AuditoriaAbre
    /\ LET g == GravacoesOficiais(form)[sessao.salvar.pos + 1]
       IN  configuracoes' = set_config(configuracoes, g.chave, g.valor)
    /\ sessao' = [sessao EXCEPT
                     !.salvar.pos = @ + 1,
                     !.salvar.antes = IF sessao.salvar.pos = 0 THEN configuracoes ELSE @]
    /\ UNCHANGED <<plano_contas, lancamentos, saldos, form, tela, arvore>>

(* The forms that differ in the formula and in two of the toggles. *)
FormsConcorrentes ==
    {f \in Forms : /\ f.modelo \in {Modelos[1], Modelos[2]}
                   /\ f.usar_saldo_lancado
                   /\ ~f.usar_saldo_calculado}

InitConcorrente ==
    /\ plano_contas = PlanoDe({ContaEntrada, ContaSaida})
    /\ lancamentos = LancamentosConfig
    /\ saldos = SaldosVistas
    /\ form \in FormsConcorrentes
    /\ configuracoes \in {<<>>} \cup {Promovida(f) : f \in FormsConcorrentes}
    /\ tela = SemTela
    /\ arvore = SemArvore
    /\ sessao = SemSessao

NextConcorrente ==
    \/ LerConfigOficial
    \/ \E p \in Periodos : DFC_ComLidas(p[1], p[2])
    \/ SalvarConfiguracaoPasso

SpecConcorrente == InitConcorrente /\ [][NextConcorrente]_vars

-----------------------------------------------------------------------------
(* menu == "Lançamentos": every run of the page starts with                *)
(* atualizar_atrasados(), then draws the chosen section and handles its    *)
(* button.                                                                 *)

STATUS_SAIDA == <<"A pagar", "Atrasado", "Renegociado", "Pago">>

STATUS_ENTRADA == <<"A receber", "Atrasado", "Renegociado", "Recebido">>

status_opcoes_por_natureza(natureza) ==
    IF natureza = "Entrada" THEN STATUS_ENTRADA ELSE STATUS_SAIDA

(* the options of the status selectboxes of the Validação section *)
StatusValidacao == <<"A pagar", "A receber", "Atrasado", "Renegociado", "Pago", "Recebido">>

(* An update that also takes the entries due today. *)
atualizar_atrasados_ate_hoje(lancs, hoje) ==
    [i \in 1..Len(lancs) |->
        IF lancs[i].data_pagamento <= hoje /\ lancs[i].status \in {"A pagar", "A receber"}
        THEN [lancs[i] EXCEPT !.status = "Atrasado"]
        ELSE lancs[i]]

(* UPDATE lancamentos SET status = 'Atrasado' WHERE date(data_pagamento) < *)
(* date(:hoje) AND status IN ('A pagar', 'A receber')                      *)
atualizar_atrasados(lancs, hoje) ==
    [i \in 1..Len(lancs) |->
        IF lancs[i].data_pagamento < hoje /\ lancs[i].status \in {"A pagar", "A receber"}
        THEN [lancs[i] EXCEPT !.status = "Atrasado"]
        ELSE lancs[i]]

TelaLancamentos(secao, hoje) == [view |-> "Lancamentos", secao |-> secao, hoje |-> hoje]

(* A run of the page that handles no button. *)
AbrirLancamentos(hoje) ==
    /\ lancamentos' = atualizar_atrasados(lancamentos, hoje)
    /\ tela' = TelaLancamentos("nenhuma", hoje)
    /\ arvore' = SemArvore
    /\ UNCHANGED <<plano_contas, saldos, configuracoes, form, sessao>>

(* SELECT * FROM plano_contas WHERE aceita_lancamento = 1; the column is   *)
(* not eh_sintetico(codigo), as transformar_plano wrote it.                *)
ContasLancaveis(plano) ==
    SelectSeq(plano, LAMBDA r : ~eh_sintetico(r.codigo))

(* Novo Lançamento, button Salvar Lançamento: conta is the row of the      *)
(* selected account.                                                       *)
SalvarLancamento(hoje, conta, vencimento, valor, status) ==
    /\ Len(lancamentos) < MaxLanc
    /\ conta \in Range(ContasLancaveis(plano_contas))
    /\ status \in Range(status_opcoes_por_natureza(conta.natureza))
    /\ lancamentos' =
           Append(atualizar_atrasados(lancamentos, hoje),
                  [data_pagamento |-> vencimento, valor |-> valor, status |-> status,
                   plano_conta_id |-> conta.codigo])
    /\ tela' = TelaLancamentos("novo", hoje)
    /\ arvore' = SemArvore
    /\ UNCHANGED <<plano_contas, saldos, configuracoes, form, sessao>>

(* df_final of Importar Excel for one row of the sheet, its code already   *)
(* corrected: the status comes from the natureza of the code in            *)
(* plano_contas.                                                           *)
linha_importada(linha, codigo, plano, importar_conciliado) ==
    LET natureza == plano_nat(plano)[codigo]
    IN  [data_pagamento |-> linha.data_pagamento, valor |-> linha.valor,
         status |-> IF importar_conciliado
                    THEN (IF natureza = "Entrada" THEN "Recebido" ELSE "Pago")
                    ELSE (IF natureza = "Entrada" THEN "A receber" ELSE "A pagar"),
         plano_conta_id |-> codigo]

(* The rows "Inserir no banco" appends for the sheet arq: the rows whose   *)
(* code is in plano_contas (validos) with their code, then the rows whose  *)
(* code is not (sem_plano) with the code chosen for each in the            *)
(* correction selectbox, corr.                                             *)
df_final(arq, corr, plano, importar_conciliado) ==
    LET n       == Len(arq)
        idx(ok) == SelectSeq([i \in 1..n |-> i],
                             LAMBDA i : (arq[i].codigo \in ChavesPlano(plano)) = ok)
        validos   == idx(TRUE)
        sem_plano == idx(FALSE)
    IN  [k \in 1..Len(validos) |->
            linha_importada(arq[validos[k]], arq[validos[k]].codigo, plano,
                            importar_conciliado)]
        \o [k \in 1..Len(sem_plano) |->
            linha_importada(arq[sem_plano[k]], corr[sem_plano[k]], plano,
                            importar_conciliado)]

(* Importar Excel: Processar arquivo, the corrections, Inserir no banco. *)
InserirNoBanco(hoje, arq, corr, importar_conciliado) ==
    /\ arq # <<>>
    /\ Len(lancamentos) + Len(arq) <= MaxLanc
    /\ lancamentos' =
           atualizar_atrasados(lancamentos, hoje)
           \o df_final(arq, corr, plano_contas, importar_conciliado)
    /\ tela' = TelaLancamentos("importar", hoje)
    /\ arvore' = SemArvore
    /\ UNCHANGED <<plano_contas, saldos, configuracoes, form, sessao>>

(* df_val of Validação after the period and status filters: the rowids. *)
df_val(lancs, ini, fim, filtro_status) ==
    {i \in 1..Len(lancs) :
        /\ ini <= lancs[i].data_pagamento
        /\ lancs[i].data_pagamento <= fim
        /\ (filtro_status = {} \/ lancs[i].status \in filtro_status)}

(* the two UPDATE statements for one rowid *)
atualizar_status(l, status, data) ==
    [l EXCEPT !.status = status,
              !.data_pagamento = IF status \in {"Pago", "Recebido"} THEN data ELSE @]

(* Validação, button Aplicar a Todos *)
AplicarATodos(hoje, ini, fim, filtro_status, status_novo_lote, data_lote) ==
    LET lancs == atualizar_atrasados(lancamentos, hoje)
        ids   == df_val(lancs, ini, fim, filtro_status)
    IN  /\ ids # {}
        /\ lancamentos' =
               [i \in 1..Len(lancs) |->
                   IF i \in ids THEN atualizar_status(lancs[i], status_novo_lote, data_lote)
                   ELSE lancs[i]]
        /\ tela' = TelaLancamentos("validacao_lote", hoje)
        /\ arvore' = SemArvore
        /\ UNCHANGED <<plano_contas, saldos, configuracoes, form, sessao>>

(* Validação, button Salvar of the row id, shown under some filter *)
SalvarUm(hoje, id, novo_status, data_real) ==
    LET lancs == atualizar_atrasados(lancamentos, hoje)
    IN  /\ id \in 1..Len(lancs)
        /\ lancamentos' = [lancs EXCEPT ![id] = atualizar_status(@, novo_status, data_real)]
        /\ tela' = TelaLancamentos("validacao_um", hoje)
        /\ arvore' = SemArvore
        /\ UNCHANGED <<plano_contas, saldos, configuracoes, form, sessao>>

-----------------------------------------------------------------------------
(* SpecLancamentos: the Lançamentos page over a chart with an Entrada      *)
(* leaf, a Saída leaf and the synthetic parent of the Saída leaf, from an  *)
(* empty ledger.                                                           *)

ContaSintetica == <<"2", "01", "00", "00">>

(* date.today() of a run: the last date or the day after it, so that an    *)
(* entry is due in the future, due today or overdue.                       *)
Hojes == {MaxData, MaxData + 1}

(* The amount plays no part in the handlers of the page. *)
ValoresLancados == {1}

(* the rows of a sheet: "Codigo Natureza", "Data Pagamento", "Valor (R$)" *)
LinhasExcel ==
    [codigo : {ContaEntrada, ContaSaida, ContaSintetica, ContaAusente},
     data_pagamento : Datas, valor : ValoresLancados]

ArquivosExcel(n) == [1..n -> LinhasExcel]

(* the multiselect "Status": its default and the empty selection *)
FiltrosStatus == { {"A pagar", "A receber", "Atrasado", "Renegociado"}, {} }

InitLancamentos ==
    /\ plano_contas = PlanoDe({ContaEntrada, ContaSaida, ContaSintetica})
    /\ lancamentos = <<>>
    /\ saldos = <<>>
    /\ configuracoes = <<>>
    /\ form = FormPadrao
    /\ tela = SemTela
    /\ arvore = SemArvore
    /\ sessao = SemSessao

NextLancamentos ==
    \/ \E hoje \in Hojes : AbrirLancamentos(hoje)
    \/ \E hoje \in Hojes, conta \in Range(plano_contas), d \in Datas,
          v \in ValoresLancados, s \in Range(StatusValidacao) :
          SalvarLancamento(hoje, conta, d, v, s)
    \/ \E hoje \in Hojes, n \in 1..(MaxLanc - Len(lancamentos)), b \in BOOLEAN :
          \E arq \in ArquivosExcel(n),
             corr \in [1..n -> {r.codigo : r \in Range(ContasLancaveis(plano_contas))}] :
             InserirNoBanco(hoje, arq, corr, b)
    \/ \E hoje \in Hojes, p \in Periodos, f \in FiltrosStatus,
          s \in Range(StatusValidacao), d \in Datas :
          AplicarATodos(hoje, p[1], p[2], f, s, d)
    \/ \E hoje \in Hojes, id \in 1..MaxLanc, s \in Range(StatusValidacao), d \in Datas :
          SalvarUm(hoje, id, s, d)

SpecLancamentos == InitLancamentos /\ [][NextLancamentos]_vars

-----------------------------------------------------------------------------
(* SpecSalvarSaldo: the section Saldo of the Lançamentos page, from an     *)
(* empty saldos table.                                                     *)

(* The page after Salvar Saldo: the widgets saldo_data, saldo_tipo and     *)
(* saldo_valor keep what was saved.                                        *)
TelaSaldo(hoje, data_ref, tipo_saldo, valor_saldo) ==
    [view |-> "Lancamentos", secao |-> "saldo", hoje |-> hoje,
     saldo_data |-> data_ref, saldo_tipo |-> tipo_saldo, saldo_valor |-> valor_saldo]

(* A save that only inserts. *)
SalvarSaldoSemDelete(hoje, data_ref, tipo_saldo, valor_saldo) ==
    /\ lancamentos' = atualizar_atrasados(lancamentos, hoje)
    /\ saldos' =
           Append(saldos,
                  [data_referencia |-> data_ref, tipo |-> tipo_saldo, valor |-> valor_saldo])
    /\ tela' = TelaSaldo(hoje, data_ref, tipo_saldo, valor_saldo)
    /\ arvore' = SemArvore
    /\ UNCHANGED <<plano_contas, configuracoes, form, sessao>>

(* Button Salvar Saldo: DELETE the rows of (data_ref, tipo), INSERT the    *)
(* new row, in one transaction.                                            *)
SalvarSaldo(hoje, data_ref, tipo_saldo, valor_saldo) ==
    /\ lancamentos' = atualizar_atrasados(lancamentos, hoje)
    /\ saldos' =
           Append(SelectSeq(saldos, LAMBDA r : ~(r.data_referencia = data_ref
                                                 /\ r.tipo = tipo_saldo)),
                  [data_referencia |-> data_ref, tipo |-> tipo_saldo, valor |-> valor_saldo])
    /\ tela' = TelaSaldo(hoje, data_ref, tipo_saldo, valor_saldo)
    /\ arvore' = SemArvore
    /\ UNCHANGED <<plano_contas, configuracoes, form, sessao>>

NextSalvarSaldo ==
    \/ \E hoje \in Hojes : AbrirLancamentos(hoje)
    \/ \E hoje \in Hojes, d \in Datas, t \in {"Inicial", "Final"}, v \in ValoresSaldo :
          SalvarSaldo(hoje, d, t, v)

SpecSalvarSaldo == InitLancamentos /\ [][NextSalvarSaldo]_vars

-----------------------------------------------------------------------------
(* SpecDuplicado: DFC - Caixa over charts imported from a sheet that may   *)
(* list a code on more than one row: transformar_plano keeps every row and *)
(* plano_contas has no UNIQUE constraint on codigo.                        *)

PlanosDuplicados ==
    UNION {[1..n -> {LinhaPlano(ContaEntrada), LinhaPlano(ContaSaida)}] : n \in 1..3}

InitDuplicado ==
    /\ plano_contas \in PlanosDuplicados
    /\ lancamentos \in TabelasLancamentos
    /\ saldos = SaldosVistas
    /\ form = FormPadrao
    /\ configuracoes \in {Promovida(FormPadrao), Promovida(SemFiltro(FormPadrao))}
    /\ tela = SemTela
    /\ arvore = SemArvore
    /\ sessao = SemSessao

NextDuplicado == \E p \in Periodos : DFC(p[1], p[2])

SpecDuplicado == InitDuplicado /\ [][NextDuplicado]_vars

-----------------------------------------------------------------------------
(* Claims about the hierarchy builder (SpecHier).                          *)

(* The parents a code has in the built hierarchy: the keys whose child     *)
(* list holds it.                                                          *)
PaisNaArvore(cod) ==
    {k \in DOMAIN arvore.filhos : cod \in Range(arvore.filhos[k])}

RaizesDaArvore == Range(arvore.roots_entrada) \cup Range(arvore.roots_saida)

(* A list with every later repetition of an element dropped. *)
RECURSIVE SemRepetidos(_)
SemRepetidos(s) ==
    IF s = <<>> THEN <<>>
    ELSE LET r == SemRepetidos(SubSeq(s, 1, Len(s) - 1))
         IN  IF s[Len(s)] \in Range(r) THEN r ELSE Append(r, s[Len(s)])

(* a.b.c.00, a.b.00.00, a.00.00.00 for a four-segment code a.b.c.d *)
TresCandidatos(cod) ==
    << <<cod[1], cod[2], cod[3], "00">>, <<cod[1], cod[2], "00", "00">>,
       <<cod[1], "00", "00", "00">> >>

PrimeiroExistente(cands, chaves) ==
    LET idx == {i \in 1..Len(cands) : cands[i] \in chaves}
    IN  IF idx = {} THEN {} ELSE {cands[CHOOSE i \in idx : \A j \in idx : i <= j]}

(* C4: for every four-segment code a.b.c.d of the chart with d # "00", the *)
(* candidates of codigo_pais are a.b.c.00, a.b.00.00, a.00.00.00 in that   *)
(* order (a candidate that coincides with an earlier one, when c or b is   *)
(* "00", listed once); its parent in the built hierarchy is the first of   *)
(* the three that is in the chart, missing levels being skipped; and it is *)
(* a root exactly when none of the three is in the chart.                  *)
C4_PrimeiroAncestralExistente ==
    arvore.feita =>
        \A cod \in ChavesPlano(plano_contas) :
            (Len(cod) = 4 /\ cod[4] # "00") =>
                /\ codigo_pais(cod) = SemRepetidos(TresCandidatos(cod))
                /\ PaisNaArvore(cod) =
                       PrimeiroExistente(TresCandidatos(cod), ChavesPlano(plano_contas))
                /\ (cod \in RaizesDaArvore) <=>
                       (PrimeiroExistente(TresCandidatos(cod), ChavesPlano(plano_contas)) = {})

(* The chart {1.00.00.00, 1.02.03.04, ...} without 1.02.03.00 and          *)
(* 1.02.00.00: the leaf hangs under 1.00.00.00.                            *)
C4_Witness ==
    /\ arvore.feita
    /\ <<"1", "02", "03", "04">> \in ChavesPlano(plano_contas)
    /\ <<"1", "02", "03", "00">> \notin ChavesPlano(plano_contas)
    /\ <<"1", "02", "00", "00">> \notin ChavesPlano(plano_contas)
    /\ <<"1", "00", "00", "00">> \in ChavesPlano(plano_contas)
    /\ <<"1", "02", "03", "04">> \in Range(arvore.filhos[<<"1", "00", "00", "00">>])

(* The codes reached from cod by following parent links, at most n times. *)
RECURSIVE Ancestrais(_, _)
Ancestrais(cod, n) ==
    IF n = 0 THEN {}
    ELSE LET ps == PaisNaArvore(cod)
         IN  ps \cup UNION {Ancestrais(k, n - 1) : k \in ps}

(* C5: the parent relation of the built hierarchy is a forest: no code is  *)
(* its own parent, no chain of parent links returns to its start, and no   *)
(* code has two parents, whatever the codes of the chart (short, over-long *)
(* and non-numeric ones included).                                         *)
C5_Floresta ==
    arvore.feita =>
        \A cod \in ChavesPlano(plano_contas) :
            /\ cod \notin PaisNaArvore(cod)
            /\ cod \notin Ancestrais(cod, Cardinality(ChavesPlano(plano_contas)))
            /\ Cardinality(PaisNaArvore(cod)) <= 1

(* A chart with a short code, an over-long code under a parent, and a      *)
(* two-level chain.                                                        *)
C5_Witness ==
    /\ arvore.feita
    /\ \E cod \in ChavesPlano(plano_contas) : Len(cod) > 4 /\ PaisNaArvore(cod) # {}
    /\ \E cod \in ChavesPlano(plano_contas) : Len(cod) < 4
    /\ \E cod \in ChavesPlano(plano_contas) :
          \E k \in PaisNaArvore(cod) : PaisNaArvore(k) # {}

-----------------------------------------------------------------------------
(* Claims about the two views (Spec) and the promotion (SpecConfig).       *)

Vistas == {"DFC", "SIM"}

(* C1: a DFC - Caixa run followed by Executar Simulação with the same      *)
(* settings and the same period over the same tables: both reach their     *)
(* result panel or neither does, and the panels show the same opening      *)
(* balance, period totals of Entrada and Saída, and closing balance.       *)
C1_VistasIguais ==
    [][ ( /\ tela.view = "DFC"
          /\ tela'.view = "SIM"
          /\ tela'.cfg = tela.cfg
          /\ tela'.ini = tela.ini
          /\ tela'.fim = tela.fim )
        => /\ (tela'.estado = "ok") <=> (tela.estado = "ok")
           /\ (tela.estado = "ok" /\ tela'.estado = "ok") =>
                 /\ tela'.saldo_inicial = tela.saldo_inicial
                 /\ tela'.total_entradas = tela.total_entradas
                 /\ tela'.total_saidas = tela.total_saidas
                 /\ tela'.saldo_final = tela.saldo_final ]_vars

(* C2: a run of a view right after a run of the same view with the same   *)
(* settings and period shows the page the first run showed: the same       *)
(* opening balance, period totals, closing balance and cash generated,     *)
(* and in DFC - Caixa the same roll-up total for every (code, natureza).   *)
C2_ExecucaoRepetida ==
    [][ ( /\ tela.view \in Vistas
          /\ tela'.view = tela.view
          /\ tela'.cfg = tela.cfg
          /\ tela'.ini = tela.ini
          /\ tela'.fim = tela.fim )
        => (tela' = tela /\ arvore' = arvore) ]_vars

(* A DFC - Caixa page with a recorded opening balance, a roll-up with an   *)
(* amount in it and a closing balance that differs from the opening one.   *)
C2_Witness ==
    /\ tela.view = "DFC"
    /\ tela.estado = "ok"
    /\ tela.saldo_lancado.tem
    /\ tela.geracao_caixa # 0
    /\ \E k \in DOMAIN arvore.cache_total : arvore.cache_total[k] > 0

(* C3: a step that ends in a DFC - Caixa page or in a simulation result    *)
(* leaves the four tables as they were, and configuracoes differs after a  *)
(* step only when the step was Salvar Configuração Oficial.                *)
C3_SomenteSalvarAlteraConfig ==
    [][ /\ (tela'.view \in Vistas) => (banco' = banco)
        /\ (configuracoes' # configuracoes) => (tela'.view = "config_salva") ]_vars

(* A simulation ran with settings that differ from the official ones, and  *)
(* the official ones are still what they were at the start.                *)
C3_Witness ==
    /\ tela.view = "SIM"
    /\ tela.estado = "ok"
    /\ tela.cfg # ConfigOficial(configuracoes)
    /\ configuracoes = <<>>

(* The rule of the reconciliation filter, row by row. *)
Admissivel(natureza, status, somente) ==
    IF ~somente THEN TRUE
    ELSE IF natureza = "Entrada" THEN status = "Recebido"
    ELSE IF natureza = "Saida" THEN status = "Pago"
    ELSE FALSE

(* C8: in both views the rows that feed the run are, with                  *)
(* considerar_somente_conciliados set, the joined rows that are Entrada    *)
(* and Recebido or Saída and Pago, and every joined row otherwise.         *)
C8_FiltroConciliados ==
    (tela.view \in Vistas) =>
        tela.df_mov =
            SelectSeq(df_join(lancamentos, plano_contas),
                      LAMBDA r : Admissivel(r.natureza, r.status,
                                            tela.cfg.considerar_somente_conciliados))

(* With the filter set, a Pago row of an Entrada account was dropped and   *)
(* another row was kept.                                                   *)
C8_Witness ==
    /\ tela.view = "DFC"
    /\ tela.estado = "ok"
    /\ tela.cfg.considerar_somente_conciliados
    /\ \E i \in 1..Len(lancamentos) :
          /\ lancamentos[i].plano_conta_id = ContaEntrada
          /\ lancamentos[i].status = "Pago"
    /\ Len(tela.df_mov) = Len(lancamentos) - 1

(* The entries whose status is the settled one of the natureza of their    *)
(* account.                                                                *)
LancamentosAdmissiveis ==
    SelectSeq(lancamentos,
              LAMBDA l : \A i \in 1..Len(plano_contas) :
                  (plano_contas[i].codigo = l.plano_conta_id) =>
                      Admissivel(plano_contas[i].natureza, l.status, TRUE))

(* C9: with considerar_somente_conciliados set, every figure of a run is   *)
(* the figure of the run over the table without the unsettled entries:     *)
(* the opening balance, the roll-up totals, the period totals and the      *)
(* closing balance in DFC - Caixa, and the four figures of the simulation. *)
C9_FiltroAntesDosTotais ==
    /\ (tela.view = "DFC" /\ tela.estado = "ok" /\ tela.cfg.considerar_somente_conciliados) =>
          LET ref == ResultadoDFC(plano_contas, LancamentosAdmissiveis, saldos,
                                  SemFiltro(tela.cfg), tela.ini, tela.fim)
          IN  /\ ref.estado = "ok"
              /\ tela.saldo_inicial = ref.saldo_inicial
              /\ tela.total_entradas = ref.total_entradas
              /\ tela.total_saidas = ref.total_saidas
              /\ tela.saldo_final = ref.saldo_final
              /\ arvore.cache_total = ArvoreDoResultado(plano_contas, ref).cache_total
    /\ (tela.view = "SIM" /\ tela.estado = "ok" /\ tela.cfg.considerar_somente_conciliados) =>
          LET ref == ResultadoSim(plano_contas, LancamentosAdmissiveis,
                                  SemFiltro(tela.cfg), tela.ini, tela.fim,
                                  tela.saldo_lancado)
          IN  /\ ref.estado = "ok"
              /\ tela.saldo_inicial = ref.saldo_inicial
              /\ tela.total_entradas = ref.total_entradas
              /\ tela.total_saidas = ref.total_saidas
              /\ tela.saldo_final = ref.saldo_final

(* The filter is set, the history before the period counts, and an         *)
(* unsettled entry is dated before the period.                             *)
C9_Witness ==
    /\ tela.view = "DFC"
    /\ tela.estado = "ok"
    /\ tela.cfg.considerar_somente_conciliados
    /\ tela.cfg.usar_saldo_calculado
    /\ \E i \in 1..Len(lancamentos) :
          /\ lancamentos[i].data_pagamento < tela.ini
          /\ lancamentos[i].status = "Atrasado"

-----------------------------------------------------------------------------
(* Claims about the roll-up (SpecRollup).                                  *)

PaginaDFC == tela.view = "DFC" /\ tela.estado = "ok"

(* What total_no(cod, natureza) returns in the run that built arvore. *)
TotalNo(cod, natureza) ==
    total_no(cod, natureza, arvore.cache_total,
             Contexto(plano_contas, df_periodo(tela.df_mov, tela.ini, tela.fim))).valor

(* The admissible in-period amounts entered on cod itself, as natureza. *)
TotalProprio(cod, natureza) ==
    SomaValor(SelectSeq(df_periodo(tela.df_mov, tela.ini, tela.fim),
                        LAMBDA r : r.codigo = cod /\ r.natureza = natureza))

SomaDosFilhos(cod, natureza) ==
    LET chs == arvore.filhos[cod]
        nat == plano_nat(plano_contas)
    IN  SumSeq([i \in 1..Len(chs) |->
                   IF nat[chs[i]] = natureza THEN TotalNo(chs[i], natureza) ELSE 0])

(* C6: for every code of the chart and either natureza, total_no is the    *)
(* code's own admissible in-period amount of that natureza plus total_no   *)
(* of its children of that natureza, and of no other child.                *)
C6_TotalNo ==
    PaginaDFC =>
        \A cod \in ChavesPlano(plano_contas) : \A natureza \in Naturezas :
            TotalNo(cod, natureza) =
                TotalProprio(cod, natureza) + SomaDosFilhos(cod, natureza)

(* An Entrada account over a Saída child over an Entrada grandchild that   *)
(* holds an amount: the child's branch has an Entrada total, and the       *)
(* account's total leaves it out.                                          *)
C6_Witness ==
    /\ PaginaDFC
    /\ \E cod \in ChavesPlano(plano_contas) : \E ch \in Range(arvore.filhos[cod]) :
          /\ plano_nat(plano_contas)[cod] = "Entrada"
          /\ plano_nat(plano_contas)[ch] = "Saida"
          /\ TotalNo(ch, "Entrada") > 0
          /\ TotalNo(cod, "Entrada") = TotalProprio(cod, "Entrada")

SomaDasRaizes(rs, natureza) ==
    SumSeq([i \in 1..Len(rs) |-> TotalNo(rs[i], natureza)])

(* C7: on a DFC - Caixa page the totals of the Entrada roots add up to     *)
(* total_entradas and the totals of the Saída roots add up to the raw      *)
(* total_saidas, whatever natureza each account has.                       *)
C7_RollupSemPerda ==
    PaginaDFC =>
        /\ SomaDasRaizes(arvore.roots_entrada, "Entrada") = tela.total_entradas
        /\ SomaDasRaizes(arvore.roots_saida, "Saida") = tela.total_saidas_raw

-----------------------------------------------------------------------------
(* Claims about the recorded opening balance (SpecSaldos).                 *)

(* The amount the claim names: of the Inicial rows dated at or before d,   *)
(* the one of the latest date and, among those, the last inserted; 0 when  *)
(* there is none.                                                          *)
SaldoLancadoEsperado(d) ==
    LET idx == {i \in 1..Len(saldos) :
                   saldos[i].tipo = "Inicial" /\ saldos[i].data_referencia <= d}
    IN  IF idx = {} THEN 0
        ELSE saldos[CHOOSE i \in idx : \A j \in idx :
                        \/ saldos[j].data_referencia < saldos[i].data_referencia
                        \/ (saldos[j].data_referencia = saldos[i].data_referencia
                            /\ j <= i)].valor

(* C10: with usar_saldo_lancado set, the recorded part of the opening      *)
(* balance of a run whose period starts at D is the valor of the Inicial   *)
(* snapshot of the latest data_referencia <= D, the last inserted among    *)
(* those of that date, and 0 when there is none; in DFC - Caixa and in the *)
(* simulation.                                                             *)
C10_SaldoInicialLancado ==
    (tela.view \in Vistas /\ tela.estado = "ok" /\ tela.cfg.usar_saldo_lancado) =>
        (IF tela.saldo_lancado.tem THEN tela.saldo_lancado.valor ELSE 0)
            = SaldoLancadoEsperado(tela.ini)

-----------------------------------------------------------------------------
(* Claims about the opening balance (Spec).                                *)

(* The natureza of the account an entry is booked on. *)
NaturezaDaConta(l) == plano_nat(plano_contas)[l.plano_conta_id]

(* +valor of an Entrada entry, -valor of a Saída entry. *)
ValorComSinal(l) == IF NaturezaDaConta(l) = "Entrada" THEN l.valor ELSE -l.valor

(* The claimed computed contribution: over the entries of lancamentos that *)
(* the settings cfg admit and that are paid strictly before d.             *)
HistoricoEsperado(cfg, d) ==
    LET antes == SelectSeq(lancamentos,
                     LAMBDA l : /\ l.data_pagamento < d
                                /\ Admissivel(NaturezaDaConta(l), l.status,
                                              cfg.considerar_somente_conciliados))
    IN  SumSeq([i \in 1..Len(antes) |-> ValorComSinal(antes[i])])

(* The recorded part of the opening balance a page shows. *)
ParteLancada == IF tela.saldo_lancado.tem THEN tela.saldo_lancado.valor ELSE 0

(* C11: with usar_saldo_calculado set, what a page adds to the opening     *)
(* balance beyond the recorded snapshot is the signed sum of the           *)
(* admissible entries paid strictly before the first day of the period;    *)
(* an entry paid on that day is not in it.  In both views.                 *)
C11_SaldoInicialCalculado ==
    (tela.view \in Vistas /\ tela.estado = "ok" /\ tela.cfg.usar_saldo_calculado) =>
        /\ tela.saldo_inicial - ParteLancada = HistoricoEsperado(tela.cfg, tela.ini)
        /\ (tela.view = "DFC") =>
              tela.saldo_inicial_calc = HistoricoEsperado(tela.cfg, tela.ini)

(* The history counts, one admissible entry is paid before the first day   *)
(* and another on the first day itself.                                    *)
C11_Witness ==
    /\ tela.view = "DFC"
    /\ tela.estado = "ok"
    /\ tela.cfg.usar_saldo_calculado
    /\ tela.saldo_inicial_calc # 0
    /\ \E i \in 1..Len(tela.df_mov) : tela.df_mov[i].data_pagamento = tela.ini
    /\ \E i \in 1..Len(tela.df_mov) : tela.df_mov[i].data_pagamento < tela.ini

(* C12: the opening balance of a page is the recorded snapshot amount,     *)
(* counted when usar_saldo_lancado is set, plus the history before the     *)
(* period, counted when usar_saldo_calculado is set: both when both are    *)
(* set, one when one is set, 0 when neither is.  In both views.            *)
C12_SaldoInicialAditivo ==
    (tela.view \in Vistas /\ tela.estado = "ok") =>
        tela.saldo_inicial =
            (IF tela.cfg.usar_saldo_lancado THEN SaldoLancadoEsperado(tela.ini) ELSE 0)
          + (IF tela.cfg.usar_saldo_calculado
             THEN HistoricoEsperado(tela.cfg, tela.ini) ELSE 0)

(* Both parts are set and neither is 0. *)
C12_Witness ==
    /\ tela.view = "DFC"
    /\ tela.estado = "ok"
    /\ tela.cfg.usar_saldo_lancado
    /\ tela.cfg.usar_saldo_calculado
    /\ tela.saldo_lancado.tem
    /\ tela.saldo_inicial_calc # 0
    /\ tela.saldo_inicial = tela.saldo_lancado.valor + tela.saldo_inicial_calc

-----------------------------------------------------------------------------
(* Claims about the formula, the sign of the outflows and the cash         *)
(* generated (SpecFormula).                                                *)

(* The row of the formula table for each of the five options. *)
LinhaDaTabela(modelo, opening, entradas, signed_saidas) ==
    CASE modelo = "Saldo + Entradas - Saidas" -> opening + entradas - signed_saidas
      [] modelo = "Saldo + Entradas + Saidas" -> opening + entradas + signed_saidas
      [] modelo = "Saldo + (Entradas - Saidas)" -> opening + (entradas - signed_saidas)
      [] modelo = "Saldo + Somente Entradas" -> opening + entradas
      [] modelo = "Saldo + Somente Saidas" -> opening + signed_saidas

(* C13: for each of the five options of the formula, the closing balance   *)
(* of a page is the row of the table over the opening balance, the         *)
(* Entrada total and the signed Saída total of the same page.              *)
C13_FormulaDaTabela ==
    (tela.view \in Vistas /\ tela.estado = "ok" /\ tela.cfg.modelo \in Range(Modelos)) =>
        tela.saldo_final =
            LinhaDaTabela(tela.cfg.modelo, tela.saldo_inicial, tela.total_entradas,
                          tela.total_saidas)

(* A DFC - Caixa page under "Saldo + Entradas + Saídas" with outflows. *)
C13_Witness ==
    /\ tela.view = "DFC"
    /\ tela.estado = "ok"
    /\ tela.cfg.modelo = "Saldo + Entradas + Saidas"
    /\ tela.total_saidas # 0
    /\ tela.total_entradas # 0

(* C14: with a text in modelo_dfc_oficial that is none of the five         *)
(* options, the closing balance of every page that applies the formula is  *)
(* the first row of the table: opening + Entrada total - signed Saída      *)
(* total.                                                                  *)
C14_FormulaDesconhecida ==
    (tela.view \in Vistas /\ tela.estado = "ok" /\ tela.cfg.modelo \notin Range(Modelos)) =>
        tela.saldo_final = tela.saldo_inicial + tela.total_entradas - tela.total_saidas

(* The raw Saída total the claim names: the amounts of the admissible      *)
(* entries on Saída accounts paid within the period of the page.           *)
SaidasBrutasEsperadas ==
    LET noPeriodo == SelectSeq(lancamentos,
                        LAMBDA l : /\ NaturezaDaConta(l) = "Saida"
                                   /\ Admissivel("Saida", l.status,
                                                 tela.cfg.considerar_somente_conciliados)
                                   /\ l.data_pagamento >= tela.ini
                                   /\ l.data_pagamento <= tela.fim)
    IN  SumSeq([i \in 1..Len(noPeriodo) |-> noPeriodo[i].valor])

(* C15: with forcar_saida_negativa set the signed Saída total of a page is *)
(* minus the absolute value of the raw sum, so never above 0; without it   *)
(* the signed total is minus the raw sum, so positive when the raw sum is  *)
(* negative.  In both views.                                               *)
C15_SinalDasSaidas ==
    (tela.view \in Vistas /\ tela.estado = "ok") =>
        LET raw == SaidasBrutasEsperadas
        IN  IF tela.cfg.forcar_saida_negativa
            THEN /\ tela.total_saidas = (IF raw < 0 THEN raw ELSE 0 - raw)
                 /\ tela.total_saidas <= 0
            ELSE /\ tela.total_saidas = 0 - raw
                 /\ (raw < 0) => (tela.total_saidas > 0)

(* The toggle is set and the raw sum of the page is negative. *)
C15_Witness ==
    /\ tela.view = "DFC"
    /\ tela.estado = "ok"
    /\ tela.cfg.forcar_saida_negativa
    /\ tela.total_saidas_raw < 0
    /\ tela.total_saidas = tela.total_saidas_raw

(* C16: the cash generated of a DFC - Caixa page is its closing balance    *)
(* minus its opening balance, whatever the text of the formula.            *)
C16_GeracaoDeCaixa ==
    (tela.view = "DFC" /\ tela.estado = "ok") =>
        tela.geracao_caixa = tela.saldo_final - tela.saldo_inicial

(* A page under a text that is none of the five options, with an opening   *)
(* balance and a closing balance that differ from each other and from 0.   *)
C16_Witness ==
    /\ tela.view = "DFC"
    /\ tela.estado = "ok"
    /\ tela.cfg.modelo = ModeloDesconhecido
    /\ tela.saldo_inicial # 0
    /\ tela.geracao_caixa # 0
    /\ tela.geracao_caixa # tela.saldo_final

-----------------------------------------------------------------------------
(* Claims about entries without an account (SpecOrfaos).                   *)

Orfao(l) == l.plano_conta_id \notin ChavesPlano(plano_contas)

(* lancamentos without the entries booked on a code the chart lacks. *)
LancamentosComConta == SelectSeq(lancamentos, LAMBDA l : ~Orfao(l))

(* C17: a page is, figure by figure, the page of the same run over the     *)
(* table without the entries booked on a code absent from the chart: the   *)
(* run ends the same way, with the same opening balance, period totals,    *)
(* closing balance and roll-up totals.  In both views.                     *)
C17_OrfaosDeFora ==
    /\ (tela.view = "DFC") =>
          LET ref == ResultadoDFC(plano_contas, LancamentosComConta, saldos,
                                  tela.cfg, tela.ini, tela.fim)
          IN  tela = ref /\ arvore = ArvoreDoResultado(plano_contas, ref)
    /\ (tela.view = "SIM") =>
          \E primeiro \in primeiros_saldos_sim(saldos, tela.ini) :
              tela = ResultadoSim(plano_contas, LancamentosComConta, tela.cfg,
                                  tela.ini, tela.fim, primeiro)

(* A page over a table holding an entry without an account paid before    *)
(* the period, with the history counted and the filter off, next to an     *)
(* entry with an account paid within the period.                           *)
C17_Witness ==
    /\ tela.view = "DFC"
    /\ tela.estado = "ok"
    /\ tela.cfg.usar_saldo_calculado
    /\ ~tela.cfg.considerar_somente_conciliados
    /\ \E i \in 1..Len(lancamentos) :
          Orfao(lancamentos[i]) /\ lancamentos[i].data_pagamento < tela.ini
    /\ Len(tela.df_mov) = Len(lancamentos) - 1

-----------------------------------------------------------------------------
(* Claims about the runs without an admissible entry (Spec).               *)

(* C18: a run whose rows are all removed by the filter still ends in a     *)
(* result: the page shows the Entrada total, the Saída total and the       *)
(* roll-up, all 0.  In both views.                                         *)
C18_RelatorioVazio ==
    (tela.view \in Vistas /\ lancamentos # <<>> /\ tela.df_mov = <<>>) =>
        /\ tela.estado = "ok"
        /\ tela.total_entradas = 0
        /\ tela.total_saidas = 0

-----------------------------------------------------------------------------
(* Claims about the stored toggles (SpecTextos).                           *)

(* The defaults DFC - Caixa passes for the four toggles. *)
DefaultDaVista ==
    [considerar_somente_conciliados |-> TRUE, usar_saldo_lancado |-> TRUE,
     usar_saldo_calculado |-> FALSE, forcar_saida_negativa |-> TRUE]

(* C19: DFC - Caixa reads a toggle as set exactly when its stored text is  *)
(* "True", and as the default when no row is stored, so "true" and "1"     *)
(* read as not set; after Salvar Configuração Oficial every toggle is      *)
(* stored as "True" or "False" and reads back as the value of its widget.  *)
C19_TextoDosBooleanos ==
    /\ (tela.view = "DFC") =>
          \A k \in ChavesBool :
              tela.cfg[k] = (IF k \in DOMAIN configuracoes
                             THEN configuracoes[k] = "True"
                             ELSE DefaultDaVista[k])
    /\ (tela.view = "config_salva") =>
          \A k \in ChavesBool :
              /\ k \in DOMAIN configuracoes
              /\ configuracoes[k] = (IF form[k] THEN "True" ELSE "False")
              /\ ConfigOficial(configuracoes)[k] = form[k]

(* A page read from a table in which a toggle whose default is set is      *)
(* stored as "true" or "1", and another toggle has no row.                 *)
C19_Witness ==
    /\ tela.view = "DFC"
    /\ \E k \in ChavesBool :
          /\ k \in DOMAIN configuracoes
          /\ configuracoes[k] \in {"true", "1"}
          /\ DefaultDaVista[k]
          /\ ~tela.cfg[k]
    /\ \E k \in ChavesBool : k \notin DOMAIN configuracoes

-----------------------------------------------------------------------------
(* Claims about the chart import (SpecHier).                               *)

(* C20: every row of an imported chart is Entrada exactly when the first   *)
(* dot-separated segment of its code is "1", and Saída otherwise.          *)
C20_NaturezaPeloPrimeiroSegmento ==
    \A i \in 1..Len(plano_contas) :
        /\ plano_contas[i].natureza \in {"Entrada", "Saida"}
        /\ (plano_contas[i].natureza = "Entrada") <=> (plano_contas[i].codigo[1] = "1")

-----------------------------------------------------------------------------
(* Claims about malformed codes (SpecHier).                                *)

SegmentosNumericos == {"00", "01", "02", "03", "04", "05", "1", "10", "2"}

Malformado(cod) == \E i \in 1..Len(cod) : cod[i] \notin SegmentosNumericos

(* C21: every code of the chart with a non-numeric segment is kept in the  *)
(* hierarchy under its literal padded code, is a root, and has no parent,  *)
(* whatever other codes the chart holds.                                   *)
C21_MalformadoERaiz ==
    arvore.feita =>
        \A cod \in ChavesPlano(plano_contas) :
            Malformado(cod) =>
                /\ cod \in DOMAIN arvore.filhos
                /\ cod \in RaizesDaArvore
                /\ PaisNaArvore(cod) = {}

-----------------------------------------------------------------------------
(* Claims about a promotion concurrent with the official view              *)
(* (SpecConcorrente).                                                      *)

(* The official configuration before the promotion. *)
ConfigAntes == IF sessao.salvar.pos = 0 THEN configuracoes ELSE sessao.salvar.antes

(* C22: the five settings a page of DFC - Caixa was computed with are      *)
(* either all those of the official configuration before the promotion or  *)
(* all those of the promoted one, whatever the interleaving of the reads   *)
(* of the page with the writes of the promotion.                           *)
C22_ConfigDeUmaSo ==
    tela.view = "DFC" =>
        \/ tela.cfg = ConfigOficial(ConfigAntes)
        \/ tela.cfg = ConfigOficial(ConfigSalva(ConfigAntes, form))

-----------------------------------------------------------------------------
(* Claims about the Lançamentos page (SpecLancamentos).                    *)

(* C23: every ledger entry's status is in the vocabulary of the natureza   *)
(* of its account: an entry on an Entrada account is never "A pagar" or    *)
(* "Pago", an entry on a Saída account is never "A receber" or "Recebido". *)
C23_StatusDaNatureza ==
    \A i \in 1..Len(lancamentos) :
        LET l == lancamentos[i]
        IN  l.plano_conta_id \in ChavesPlano(plano_contas) =>
               l.status \in
                   Range(status_opcoes_por_natureza(plano_nat(plano_contas)[l.plano_conta_id]))

(* C24: no ledger entry references a synthetic account, one whose fourth   *)
(* code segment is "00" (aceita_lancamento false), after any sequence of   *)
(* manual creations and imports.                                           *)
C24_SemLancamentoEmSintetica ==
    \A i \in 1..Len(lancamentos) :
        lancamentos[i].plano_conta_id \in ChavesPlano(plano_contas) =>
            ~eh_sintetico(lancamentos[i].plano_conta_id)

-----------------------------------------------------------------------------
(* Claims about Salvar Saldo (SpecSalvarSaldo).                            *)

DoPar(r, d, t) == r.data_referencia = d /\ r.tipo = t

(* C25: a step of Salvar Saldo for (date, type) with an amount leaves at   *)
(* most one snapshot for every (date, type) pair, leaves exactly one for   *)
(* the saved pair, carrying the saved amount, and leaves the snapshots of  *)
(* every other date or type as they were, in their order.                  *)
C25_UmSaldoPorPar ==
    [][ (tela'.view = "Lancamentos" /\ tela'.secao = "saldo") =>
           LET d == tela'.saldo_data
               t == tela'.saldo_tipo
           IN  /\ \A i, j \in 1..Len(saldos') :
                      DoPar(saldos'[i], saldos'[j].data_referencia, saldos'[j].tipo)
                          => i = j
               /\ \E i \in 1..Len(saldos') :
                      /\ DoPar(saldos'[i], d, t)
                      /\ saldos'[i].valor = tela'.saldo_valor
               /\ SelectSeq(saldos', LAMBDA r : ~DoPar(r, d, t))
                      = SelectSeq(saldos, LAMBDA r : ~DoPar(r, d, t)) ]_vars

(* A save over an earlier snapshot of the same pair with another amount is *)
(* not expressible in a state; the state after a save that found a         *)
(* snapshot of another pair, with every pair once: three pairs stored, the *)
(* saved one last.                                                         *)
C25_Witness ==
    /\ tela.view = "Lancamentos"
    /\ tela.secao = "saldo"
    /\ Len(saldos) = 3
    /\ DoPar(saldos[3], tela.saldo_data, tela.saldo_tipo)
    /\ saldos[3].valor = tela.saldo_valor
    /\ saldos[1].data_referencia = saldos[3].data_referencia
    /\ saldos[1].tipo # saldos[3].tipo
    /\ saldos[2].data_referencia # saldos[3].data_referencia

-----------------------------------------------------------------------------
(* Claims about the memoization of total_no (SpecRollup).                  *)

(* The recursive definition without a cache, over the entries of the       *)
(* period of the page: the code's own amount plus the totals of its        *)
(* children of the same natureza.                                          *)
RECURSIVE TotalSemCache(_, _)
TotalSemCache(cod, natureza) ==
    LET chs == arvore.filhos[cod]
        nat == plano_nat(plano_contas)
    IN  TotalProprio(cod, natureza)
        + SumSeq([i \in 1..Len(chs) |->
                     IF nat[chs[i]] = natureza THEN TotalSemCache(chs[i], natureza) ELSE 0])

ContextoDaPagina ==
    Contexto(plano_contas, df_periodo(tela.df_mov, tela.ini, tela.fim))

(* C26: on a DFC - Caixa page every total shown, every total left in       *)
(* cache_total, and every value total_no returns when called first, after  *)
(* a call for any other node, or again with the cache of the whole run, is *)
(* the total without a cache over the entries of the page's own period;    *)
(* nothing comes from the cache of a run over another period.              *)
C26_MemoizacaoNaoMuda ==
    PaginaDFC =>
        /\ \A l \in arvore.linhas : l.total = TotalSemCache(l.codigo, l.natureza)
        /\ \A k \in DOMAIN arvore.cache_total :
               arvore.cache_total[k] = TotalSemCache(k[1], k[2])
        /\ \A cod \in ChavesPlano(plano_contas) : \A natureza \in Naturezas :
               /\ total_no(cod, natureza, <<>>, ContextoDaPagina).valor
                      = TotalSemCache(cod, natureza)
               /\ TotalNo(cod, natureza) = TotalSemCache(cod, natureza)
               /\ \A cod2 \in ChavesPlano(plano_contas) : \A nat2 \in Naturezas :
                      total_no(cod, natureza,
                               total_no(cod2, nat2, <<>>, ContextoDaPagina).cache,
                               ContextoDaPagina).valor
                          = TotalSemCache(cod, natureza)

(* A page whose period leaves out an admissible entry of an account that   *)
(* has an amount in the period, the account under a parent of its          *)
(* natureza: the child's total is computed for the parent and read from    *)
(* the cache for its own line, and a run over another period has another   *)
(* total for it.                                                           *)
C26_Witness ==
    /\ PaginaDFC
    /\ \E cod \in ChavesPlano(plano_contas) : \E ch \in Range(arvore.filhos[cod]) :
          /\ plano_nat(plano_contas)[cod] = plano_nat(plano_contas)[ch]
          /\ \E l \in arvore.linhas : l.codigo = ch /\ l.total > 0
          /\ \E l \in arvore.linhas : l.codigo = cod /\ l.total > TotalProprio(cod, l.natureza)
          /\ \E i \in 1..Len(tela.df_mov) :
                /\ tela.df_mov[i].codigo = ch
                /\ tela.df_mov[i].natureza = plano_nat(plano_contas)[ch]
                /\ ~(tela.ini <= tela.df_mov[i].data_pagamento
                     /\ tela.df_mov[i].data_pagamento <= tela.fim)

-----------------------------------------------------------------------------
(* Claims about the bounds of the period (Spec).                           *)

(* The admissible entries of lancamentos on accounts of one natureza whose *)
(* payment date satisfies noPeriodo, and the sum of their amounts.         *)
SomaAdmissivel(cfg, natureza, noPeriodo(_)) ==
    LET ls == SelectSeq(lancamentos,
                  LAMBDA l : /\ NaturezaDaConta(l) = natureza
                             /\ Admissivel(natureza, l.status,
                                           cfg.considerar_somente_conciliados)
                             /\ noPeriodo(l.data_pagamento))
    IN  SumSeq(Valores(ls))

(* C27: on a page of either view the period totals are the sums of the     *)
(* admissible entries with start <= payment date <= end, the rollup line   *)
(* of each account in DFC - Caixa is the sum of its own such entries, and, *)
(* with usar_saldo_calculado set, the computed opening balance and the     *)
(* period together hold every admissible entry dated at or before end      *)
(* once: an entry dated on start is in the period and not in the opening   *)
(* balance.                                                                *)
C27_PeriodoInclusivo ==
    (tela.view \in Vistas /\ tela.estado = "ok") =>
        LET dentro(d) == tela.ini <= d /\ d <= tela.fim
            ate(d)    == d <= tela.fim
        IN  /\ tela.total_entradas = SomaAdmissivel(tela.cfg, "Entrada", dentro)
            /\ -tela.total_saidas = SomaAdmissivel(tela.cfg, "Saida", dentro)
            /\ (tela.view = "DFC") =>
                  \A l \in arvore.linhas :
                      l.total = SomaAdmissivel(tela.cfg, l.natureza, dentro)
            /\ tela.cfg.usar_saldo_calculado =>
                  (tela.saldo_inicial - ParteLancada)
                      + tela.total_entradas + tela.total_saidas
                  = SomaAdmissivel(tela.cfg, "Entrada", ate)
                    - SomaAdmissivel(tela.cfg, "Saida", ate)

(* A simulation over a one-day period with usar_saldo_calculado set, an    *)
(* admissible entry paid on that day and another paid before it.           *)
C27_Witness ==
    /\ tela.view = "SIM"
    /\ tela.estado = "ok"
    /\ tela.cfg.usar_saldo_calculado
    /\ tela.ini = tela.fim
    /\ tela.total_entradas - tela.total_saidas > 0
    /\ tela.saldo_inicial # ParteLancada
    /\ \E i \in 1..Len(tela.df_mov) : tela.df_mov[i].data_pagamento = tela.ini

-----------------------------------------------------------------------------
(* Claims about charts with repeated codes (SpecDuplicado).                *)

(* The sum of the admissible in-period entries of lancamentos on the       *)
(* account cod, each entry once.                                           *)
SomaDaConta(cod) ==
    LET ls == SelectSeq(lancamentos,
                  LAMBDA l : /\ l.plano_conta_id = cod
                             /\ Admissivel(NaturezaDaConta(l), l.status,
                                           tela.cfg.considerar_somente_conciliados)
                             /\ tela.ini <= l.data_pagamento
                             /\ l.data_pagamento <= tela.fim)
    IN  SumSeq(Valores(ls))

SomaDasContas(natureza) ==
    LET cs == Sorted({c \in ChavesPlano(plano_contas) :
                         plano_nat(plano_contas)[c] = natureza})
    IN  SumSeq([i \in 1..Len(cs) |-> SomaDaConta(cs[i])])

(* C28: on a DFC - Caixa page each admissible in-period entry is in the    *)
(* period total of its natureza once and in the own-entry sum of its       *)
(* account in the rollup once, also when the chart lists a code on more    *)
(* than one row.                                                           *)
C28_CadaLancamentoUmaVez ==
    PaginaDFC =>
        /\ tela.total_entradas = SomaDasContas("Entrada")
        /\ tela.total_saidas_raw = SomaDasContas("Saida")
        /\ \A cod \in ChavesPlano(plano_contas) :
               Get(ContextoDaPagina.soma_por_codigo,
                   <<cod, plano_nat(plano_contas)[cod]>>, 0) = SomaDaConta(cod)

-----------------------------------------------------------------------------
(* Claims about the automatic overdue update (SpecLancamentos).            *)

Vencido(l, hoje) == l.status \in {"A pagar", "A receber"} /\ l.data_pagamento < hoje

(* C29: a run of the Lançamentos page that handles no button, which is one *)
(* atualizar_atrasados() with today's date, keeps the rows of lancamentos, *)
(* sets to "Atrasado" the status, and nothing else, of each entry that was *)
(* "A pagar" or "A receber" with a payment date strictly before today, and *)
(* leaves every other entry as it was ("Pago", "Recebido", "Renegociado"   *)
(* and "Atrasado" entries among them); no entry it would change is left,   *)
(* and a second run on the same day changes nothing.                       *)
C29_SoAtrasaVencidos ==
    [][ (tela'.view = "Lancamentos" /\ tela'.secao = "nenhuma") =>
           /\ Len(lancamentos') = Len(lancamentos)
           /\ \A i \in 1..Len(lancamentos) :
                  lancamentos'[i] =
                      IF Vencido(lancamentos[i], tela'.hoje)
                      THEN [lancamentos[i] EXCEPT !.status = "Atrasado"]
                      ELSE lancamentos[i]
           /\ \A i \in 1..Len(lancamentos') : ~Vencido(lancamentos'[i], tela'.hoje)
           /\ (tela.view = "Lancamentos" /\ tela.secao = "nenhuma"
               /\ tela.hoje = tela'.hoje) => lancamentos' = lancamentos ]_vars

(* After a run that handled no button: an entry that is "Atrasado" with a  *)
(* payment date before today next to an entry "A pagar" or "A receber"     *)
(* due today, which the run left alone.                                    *)
C29_Witness ==
    /\ tela.view = "Lancamentos"
    /\ tela.secao = "nenhuma"
    /\ \E i \in 1..Len(lancamentos) :
          /\ lancamentos[i].status = "Atrasado"
          /\ lancamentos[i].data_pagamento < tela.hoje
    /\ \E i \in 1..Len(lancamentos) :
          /\ lancamentos[i].status \in {"A pagar", "A receber"}
          /\ lancamentos[i].data_pagamento = tela.hoje

====
